---- MODULE Spec2Model ----
(***************************************************************************)
(* Model of the transcript segmentation engine of latios-oss               *)
(* (src/python/aws/latios_transcribe.py):                                  *)
(*   Transcriber.clean_chinese_text       under the specification SpecClean*)
(*   Transcriber.process_transcript_data  under the specification Spec     *)
(*                                                                         *)
(* Text is a sequence of atoms.  An atom is one character ("U+4F60" is the *)
(* ideograph with that code point, " " a space, "\\" a backslash) or an    *)
(* opaque block of ASCII characters that the code never looks inside       *)
(* ("w3", "Hello", and the five characters "u4f60" that follow a backslash *)
(* in an escape sequence).                                                 *)
(***************************************************************************)
EXTENDS Integers, Sequences, FiniteSets, TLC

\* ------------------------------------------------------------------ atoms
BS == "\\"
SP == " "
NBSP == "U+00A0"
NI == "U+4F60"
HAO == "U+597D"
SHI == "U+4E16"
JIE == "U+754C"
FWCOMMA == "U+FF0C"
FWPERIOD == "U+3002"
\* a lone surrogate, which a str can hold and UTF-8 cannot encode
SURR == "U+D800"

\* [\u4e00-\u9fff]
CJKChars == {NI, HAO, SHI, JIE}

\* the twelve marks of the character class of steps 3 and 4: six full-width, six ASCII
PunctChars == {FWCOMMA, FWPERIOD, "U+FF01", "U+FF1F", "U+FF1B", "U+FF1A",
               ",", ".", "!", "?", ";", ":"}

\* \s of a str pattern, and the characters str.strip() removes
WsChars == {SP, NBSP}

IsCJK(c) == c \in CJKChars
IsPunct(c) == c \in PunctChars
IsWs(c) == c \in WsChars

\* the characters after the backslash of a \uXXXX escape, and what they decode to
UBlocks == {"u4f60", "u005c"}
UDecoded(b) == IF b = "u4f60" THEN NI ELSE BS

\* a non-ASCII character encoded as UTF-8 and read back byte by byte
\* (unicode_escape decodes bytes >= 0x80 as Latin-1); the Latin-1 characters
\* this produces are listed too, for a text that is decoded a second time
Utf8AsLatin1(c) ==
    CASE c = NI       -> <<"U+00E4", "U+00BD", NBSP>>
      [] c = HAO      -> <<"U+00E5", "U+00A5", "U+00BD">>
      [] c = SHI      -> <<"U+00E4", "U+00B8", "U+0096">>
      [] c = JIE      -> <<"U+00E7", "U+0095", "U+008C">>
      [] c = FWCOMMA  -> <<"U+00EF", "U+00BC", "U+008C">>
      [] c = FWPERIOD -> <<"U+00E3", "U+0080", "U+0082">>
      [] c = "U+00E4" -> <<"U+00C3", "U+00A4">>
      [] c = "U+00BD" -> <<"U+00C2", "U+00BD">>
      [] c = NBSP     -> <<"U+00C2", NBSP>>
      [] c = "U+00E5" -> <<"U+00C3", "U+00A5">>
      [] c = "U+00A5" -> <<"U+00C2", "U+00A5">>
      [] c = "U+00B8" -> <<"U+00C2", "U+00B8">>
      [] c = "U+0096" -> <<"U+00C2", "U+0096">>
      [] c = "U+00E7" -> <<"U+00C3", "U+00A7">>
      [] c = "U+0095" -> <<"U+00C2", "U+0095">>
      [] c = "U+008C" -> <<"U+00C2", "U+008C">>
      [] c = "U+00EF" -> <<"U+00C3", "U+00AF">>
      [] c = "U+00BC" -> <<"U+00C2", "U+00BC">>
      [] c = "U+00E3" -> <<"U+00C3", "U+00A3">>
      [] c = "U+0080" -> <<"U+00C2", "U+0080">>
      [] c = "U+0082" -> <<"U+00C2", "U+0082">>
      [] OTHER        -> <<c>>

\* ------------------------------------------------- clean_chinese_text
\* '\\u' in text
HasBackslashU(text) ==
    \E p \in 1..(Len(text) - 1) : text[p] = BS /\ text[p + 1] \in UBlocks

\* json.loads(f'"{text}"'): \\ and \uXXXX are decoded, any other backslash
\* is an invalid escape
RECURSIVE JsonLoads(_, _, _)
JsonLoads(text, p, acc) ==
    IF p > Len(text) THEN [ok |-> TRUE, val |-> acc]
    ELSE IF text[p] = BS
         THEN IF p < Len(text) /\ text[p + 1] = BS
              THEN JsonLoads(text, p + 2, Append(acc, BS))
              ELSE IF p < Len(text) /\ text[p + 1] \in UBlocks
                   THEN JsonLoads(text, p + 2, Append(acc, UDecoded(text[p + 1])))
                   ELSE [ok |-> FALSE, val |-> text]
         ELSE JsonLoads(text, p + 1, Append(acc, text[p]))

\* codecs.decode(text, 'unicode_escape'): an unknown escape is kept, a
\* backslash at the end of the string is an error, the text is read as the
\* Latin-1 view of its UTF-8 bytes
RECURSIVE UnicodeEscape(_, _, _)
UnicodeEscape(text, p, acc) ==
    IF p > Len(text) THEN [ok |-> TRUE, val |-> acc]
    ELSE IF text[p] = BS
         THEN IF p = Len(text)
              THEN [ok |-> FALSE, val |-> text]
              ELSE IF text[p + 1] = BS
                   THEN UnicodeEscape(text, p + 2, Append(acc, BS))
                   ELSE IF text[p + 1] \in UBlocks
                        THEN UnicodeEscape(text, p + 2, Append(acc, UDecoded(text[p + 1])))
                        ELSE UnicodeEscape(text, p + 1, Append(acc, BS))
         ELSE UnicodeEscape(text, p + 1, acc \o Utf8AsLatin1(text[p]))

\* text.encode('utf-8'), which codecs.decode does to a str as well
Utf8Encodable(text) == \A p \in DOMAIN text : text[p] # SURR

\* codecs.decode(text, 'unicode_escape') of line 159 on the whole text
CodecsDecode(text) ==
    IF Utf8Encodable(text) THEN UnicodeEscape(text, 1, <<>>)
    ELSE [ok |-> FALSE, val |-> text]

\* the try chain: json.loads, then codecs.decode; the two remaining
\* attempts decode the same escapes and fail whenever codecs.decode failed
DecodeEscapes(text) ==
    IF HasBackslashU(text)
    THEN LET j == JsonLoads(text, 1, <<>>)
             u == CodecsDecode(text)
         IN  IF j.ok THEN j.val ELSE IF u.ok THEN u.val ELSE text
    ELSE text

\* line 162: after json.loads and codecs.decode have failed, encode('utf-8')
\* raises UnicodeEncodeError, which "except UnicodeDecodeError" lets through
DecodeRaises(text) ==
    /\ HasBackslashU(text)
    /\ ~JsonLoads(text, 1, <<>>).ok
    /\ ~CodecsDecode(text).ok
    /\ ~Utf8Encodable(text)

\* index of the last character of the whitespace run that contains text[p]
RECURSIVE WsRunEnd(_, _)
WsRunEnd(text, p) ==
    IF p < Len(text) /\ IsWs(text[p + 1]) THEN WsRunEnd(text, p + 1) ELSE p

\* re.sub(r'(?<=[\u4e00-\u9fff])\s+(?=[\u4e00-\u9fff])', '', text)
RECURSIVE RemoveWsBetweenCJK(_, _, _)
RemoveWsBetweenCJK(text, p, acc) ==
    IF p > Len(text) THEN acc
    ELSE LET e == WsRunEnd(text, p)
         IN  IF /\ IsWs(text[p])
                /\ p > 1 /\ IsCJK(text[p - 1])
                /\ e < Len(text) /\ IsCJK(text[e + 1])
             THEN RemoveWsBetweenCJK(text, e + 1, acc)
             ELSE RemoveWsBetweenCJK(text, p + 1, Append(acc, text[p]))

\* re.sub(r'\s+([<marks>])', r'\1', text)
RECURSIVE RemoveWsBeforePunct(_, _, _)
RemoveWsBeforePunct(text, p, acc) ==
    IF p > Len(text) THEN acc
    ELSE LET e == WsRunEnd(text, p)
         IN  IF IsWs(text[p]) /\ e < Len(text) /\ IsPunct(text[e + 1])
             THEN RemoveWsBeforePunct(text, e + 1, acc)
             ELSE RemoveWsBeforePunct(text, p + 1, Append(acc, text[p]))

\* the whitespace after a mark removed instead of collapsed
RECURSIVE OneSpaceAfterPunct_Removed(_, _, _)
OneSpaceAfterPunct_Removed(text, p, acc) ==
    IF p > Len(text) THEN acc
    ELSE IF IsPunct(text[p]) /\ p < Len(text) /\ IsWs(text[p + 1])
         THEN OneSpaceAfterPunct_Removed(text, WsRunEnd(text, p + 1) + 1,
                                         Append(acc, text[p]))
         ELSE OneSpaceAfterPunct_Removed(text, p + 1, Append(acc, text[p]))

\* re.sub(r'([<marks>])\s+', r'\1 ', text)
RECURSIVE OneSpaceAfterPunct(_, _, _)
OneSpaceAfterPunct(text, p, acc) ==
    IF p > Len(text) THEN acc
    ELSE IF IsPunct(text[p]) /\ p < Len(text) /\ IsWs(text[p + 1])
         THEN OneSpaceAfterPunct(text, WsRunEnd(text, p + 1) + 1,
                                 acc \o <<text[p], SP>>)
         ELSE OneSpaceAfterPunct(text, p + 1, Append(acc, text[p]))

\* text.strip()
RECURSIVE Strip(_)
Strip(text) ==
    IF text = <<>> THEN text
    ELSE IF IsWs(Head(text)) THEN Strip(Tail(text))
    ELSE IF IsWs(text[Len(text)]) THEN Strip(SubSeq(text, 1, Len(text) - 1))
    ELSE text

\* re.sub(r'\s+', ' ', text)
RECURSIVE CollapseWs(_, _, _)
CollapseWs(text, p, acc) ==
    IF p > Len(text) THEN acc
    ELSE IF IsWs(text[p])
         THEN CollapseWs(text, WsRunEnd(text, p) + 1, Append(acc, SP))
         ELSE CollapseWs(text, p + 1, Append(acc, text[p]))

\* the handler returning an empty text
ReturnOnError_Empty(text) == <<>>

\* lines 188-190: "return text", the local text as last assigned
ReturnOnError(text) == text

clean_chinese_text(text) ==
    LET t1 == DecodeEscapes(text)
        t2 == RemoveWsBetweenCJK(t1, 1, <<>>)
        t3 == RemoveWsBeforePunct(t2, 1, <<>>)
        t4 == OneSpaceAfterPunct(t3, 1, <<>>)
        t5 == Strip(t4)
    IN  IF DecodeRaises(text) THEN ReturnOnError(text)
        ELSE CollapseWs(t5, 1, <<>>)

\* --------------------------------------------- process_transcript_data
\* Times are integers in milliseconds: an item's start_time 5.2 is 5200.
\* Every time of the inputs below is a multiple of 0.5 s or one of the
\* values of Scenario A, for which float(), "* 1000", "/ 60" and int() of
\* the code give exactly the integer results computed here.

\* a key that is absent from an item, and Python's None
Missing == -1
None == -1
\* a timestamp that float() rejects
Unparsable == -2
NoSpeaker == "None"
AbsentLabel == "<absent>"
DefaultSpeaker == "spk_0"

MinPauseWords == 20
MinSpeakerWords == 15
MaxWords == 150
PauseMs == 4000
MinuteMs == 60000

VARIABLES
    items, is_chinese,                       \* the arguments
    pc,                                      \* "scan", "done" or "error"
    i, start_time,                           \* loop index and the local start_time
    segments, current_minute, minute_segments,
    speaker_count, speaker_map,
    current_sentence, sentence_start_time, current_speaker,
    should_create_segment,                   \* the local of the last iteration
    text, once, twice, cpc,                  \* clean_chinese_text applied to text
    other,                                   \* the locals of a second invocation
    mpc, flat_segments,                      \* monitor_asr_task around the call
    transcription_tasks, active_episodes,    \* the dicts of the transcription service
    tbl_transcript, supabase,                \* the table, and whether url and key are set
    clock,                                   \* int(time.time())
    background,                              \* the background tasks added, in order
    posts, reply,                            \* requests handled, and the last reply
    queue,                                   \* the asyncio.Queue of generate_stream
    claude, titan,                           \* the two reader threads
    gpc,                                     \* where generate_stream is
    full_text, streamed_chars, client_closed,
    max_client_chars, allow_full_stream,
    sent,                                    \* what generate_stream has yielded
    no_persist, written                      \* the text handed to write_to_db_async

scanVars == <<items, is_chinese, pc, i, start_time, segments, current_minute,
              minute_segments, speaker_count, speaker_map, current_sentence,
              sentence_start_time, current_speaker, should_create_segment>>
cleanVars == <<text, once, twice, cpc>>
callerVars == <<mpc, flat_segments>>
serviceVars == <<transcription_tasks, active_episodes, tbl_transcript, supabase,
                 clock, background, posts, reply>>
streamVars == <<queue, claude, titan, gpc, full_text, streamed_chars, client_closed,
                max_client_chars, allow_full_stream, sent, no_persist, written>>
vars == <<scanVars, cleanVars, other, callerVars, serviceVars, streamVars>>

\* a Punctuation token scanned like a Word token
IsWord_Always(item) == TRUE

\* a Word token without alternatives skipped like a punctuation item
IsWord_WithText(item) == item.type # "punctuation" /\ item.alternatives # <<>>

\* item['type'] != 'punctuation'
IsWord(item) == item.type # "punctuation"

\* item.get('speaker_label', 'spk_0')
SpeakerLabel(item) ==
    IF item.speaker_label = AbsentLabel THEN DefaultSpeaker ELSE item.speaker_label

\* 'alternatives' in item and item['alternatives']
HasAlternatives(item) == item.alternatives # <<>>

\* item['alternatives'][0]['content']
Content(item) == item.alternatives[1].content

\* f"Speaker {speaker_count}"
DisplayLabel(n) == "Speaker " \o ToString(n)

\* speaker_map.get(current_speaker, "Speaker 1")
SpeakerId(map, speaker) ==
    IF speaker \in DOMAIN map THEN map[speaker] ELSE DisplayLabel(1)

\* any(last_word.endswith(marker) for marker in ['.', '!', '?'])
IsSentenceEnd(last_word) ==
    last_word # <<>> /\ last_word[Len(last_word)] \in {".", "!", "?"}

\* the cap compared with > instead of >=
BoundaryRule_CapOffByOne(is_sentence_end, next_time, cur_time, next_speaker, cur_speaker, n) ==
    \/ is_sentence_end /\ next_time - cur_time > PauseMs /\ n >= MinPauseWords
    \/ next_speaker # cur_speaker /\ is_sentence_end /\ n >= MinSpeakerWords
    \/ n > MaxWords

\* the cap left out
BoundaryRule_NoCap(is_sentence_end, next_time, cur_time, next_speaker, cur_speaker, n) ==
    \/ is_sentence_end /\ next_time - cur_time > PauseMs /\ n >= MinPauseWords
    \/ next_speaker # cur_speaker /\ is_sentence_end /\ n >= MinSpeakerWords

\* the speaker rule without its length guard
BoundaryRule_NoSpeakerGuard(is_sentence_end, next_time, cur_time, next_speaker, cur_speaker, n) ==
    \/ is_sentence_end /\ next_time - cur_time > PauseMs /\ n >= MinPauseWords
    \/ next_speaker # cur_speaker /\ is_sentence_end
    \/ n >= MaxWords

\* the length guard of the speaker rule compared with > instead of >=
BoundaryRule_SpeakerGuardStrict(is_sentence_end, next_time, cur_time, next_speaker, cur_speaker, n) ==
    \/ is_sentence_end /\ next_time - cur_time > PauseMs /\ n >= MinPauseWords
    \/ next_speaker # cur_speaker /\ is_sentence_end /\ n > MinSpeakerWords
    \/ n >= MaxWords

\* terminal punctuation closes a sentence by itself
BoundaryRule_PunctuationAlone(is_sentence_end, next_time, cur_time, next_speaker, cur_speaker, n) ==
    \/ is_sentence_end
    \/ n >= MaxWords

\* the length guard of the pause rule compared with > instead of >=
BoundaryRule_PauseGuardStrict(is_sentence_end, next_time, cur_time, next_speaker, cur_speaker, n) ==
    \/ is_sentence_end /\ next_time - cur_time > PauseMs /\ n > MinPauseWords
    \/ next_speaker # cur_speaker /\ is_sentence_end /\ n >= MinSpeakerWords
    \/ n >= MaxWords

\* the three rules of lines 358-362
BoundaryRule(is_sentence_end, next_time, cur_time, next_speaker, cur_speaker, n) ==
    \/ is_sentence_end /\ next_time - cur_time > PauseMs /\ n >= MinPauseWords
    \/ next_speaker # cur_speaker /\ is_sentence_end /\ n >= MinSpeakerWords
    \/ n >= MaxWords

\* the words a to b of a sentence, with one space between two words
RECURSIVE JoinRange(_, _, _)
JoinRange(words, a, b) ==
    IF a > b THEN <<>>
    ELSE IF a = b THEN words[a]
    ELSE LET h == (a + b) \div 2
         IN  JoinRange(words, a, h) \o <<SP>> \o JoinRange(words, h + 1, b)

\* ' '.join(current_sentence)
Join(words) == JoinRange(words, 1, Len(words))

\* int(sentence_start_time / 60), on a time in milliseconds
MinuteOf(t) == t \div MinuteMs

Pad2(n) == IF n < 10 THEN "0" \o ToString(n) ELSE ToString(n)

\* time.strftime("%H:%M:%S", time.gmtime(start_ms/1000))
FormattedTime(start_ms) ==
    LET s == start_ms \div 1000
    IN  Pad2((s \div 3600) % 24) \o ":" \o Pad2((s \div 60) % 60) \o ":" \o Pad2(s % 60)

\* only the missing key noticed
StartTimeRaises_KeyOnly(item) == item.start_time = Missing

\* float(item['start_time']) raises KeyError or ValueError
StartTimeRaises(item) == item.start_time \in {Missing, Unparsable}

\* float(item.get('end_time', start_time)) raises ValueError
EndTimeRaises(item) == item.end_time = Unparsable

\* the times t (in ms, written as the decimal string of t / 1000) up to 8 s
\* for which float(string) * 1000 lies just below t: 1.001, 1.003, ..., 1.023,
\* 2.002, 2.006, ..., 2.046, 4.004, 4.012, ..., 4.092 and 4.007, 4.015, ...,
\* 4.095; every multiple of 500 ms is exact
InexactMs ==
    { 1001 + 2 * k : k \in 0..11 } \cup { 2002 + 4 * k : k \in 0..11 }
        \cup { 4004 + 8 * k : k \in 0..11 } \cup { 4007 + 8 * k : k \in 0..11 }

\* int(x * 1000): the floating-point product, truncated
ToMs(t) == IF t \in InexactMs THEN t - 1 ELSE t

\* the end time taken for 0 when the key is missing
EndMsOf_ZeroWhenMissing(item, cur_time) ==
    ToMs(IF item.end_time = Missing THEN 0 ELSE item.end_time)

\* int(float(item.get('end_time', start_time)) * 1000)
EndMsOf(item, cur_time) ==
    ToMs(IF item.end_time = Missing THEN cur_time ELSE item.end_time)

\* the sentence text handed to the segment
SentenceText(words, chinese) ==
    IF chinese THEN clean_chinese_text(Join(words)) ELSE Join(words)

TranscriptionSegment(start_ms, end_ms, sentence, speaker_id) ==
    [StartMs |-> start_ms, EndMs |-> end_ms, FinalSentence |-> sentence,
     SpeakerId |-> speaker_id, FormattedTime |-> FormattedTime(start_ms)]

MinuteSegment(minute, segs) == [minute |-> minute, segments |-> segs]

\* the word assigned instead of appended
AppendWord_Overwrite(sentence, entry) == <<entry>>

\* current_sentence.append(word), with the punctuation mark that follows it
AppendWord(sentence, entry) == Append(sentence, entry)

\* the punctuation mark appended after a space
MergePunctuation_WithSpace(word, punct) == word \o <<SP>> \o punct

\* current_sentence[-1] += punct
MergePunctuation(word, punct) == word \o punct

\* the index left where it is
NextIndex_Stay(j) == j

\* line 397: i += 1
NextIndex(j) == j + 1

\* the last minute group forgotten
ReturnValue_DropLast(segs, cur_minute, msegs) == segs

\* the last minute group appended without looking whether it is empty
ReturnValue_AlwaysAppend(segs, cur_minute, msegs) ==
    Append(segs, MinuteSegment(cur_minute, msegs))

\* lines 423-426: the last minute group is appended and the list returned
ReturnValue(segs, cur_minute, msegs) ==
    IF msegs # <<>> THEN Append(segs, MinuteSegment(cur_minute, msegs)) ELSE segs

\* the open minute group kept when the minute changes
ClosesGroup_Never(cur_minute, item_minute, msegs) == FALSE

\* the open minute group closed at every sentence
ClosesGroup_Always(cur_minute, item_minute, msegs) ==
    cur_minute # -1 /\ msegs # <<>>

\* lines 375-378: close the open minute group when the minute changes
ClosesGroup(cur_minute, item_minute, msegs) ==
    cur_minute # -1 /\ cur_minute # item_minute /\ msegs # <<>>

\* ------------------------------------------------------------ the inputs
MaxShort == 3
MaxTail == 2
MaxLongTail == 3
MaxChinese == 2
MaxCleanLen == 4
MaxText == 2
MaxBad == 2
MaxTextless == 2
MaxTwo == 2
MaxInexact == 2
MaxLive == 2

Word(start, end, speaker, alts) ==
    [type |-> "pronunciation", start_time |-> start, end_time |-> end,
     speaker_label |-> speaker, alternatives |-> alts]

Punctuation(alts) ==
    [type |-> "punctuation", start_time |-> Missing, end_time |-> Missing,
     speaker_label |-> AbsentLabel, alternatives |-> alts]

Alt(content) == <<[content |-> content]>>

\* the kinds of item an input is built from: a word is given by the pause dt
\* before it (ms after the previous word's start), its speaker and which of
\* its keys are present
WordKind(dt, speaker, has_alt, has_start, has_end) ==
    [type |-> "pronunciation", dt |-> dt, speaker |-> speaker, has_alt |-> has_alt,
     has_start |-> has_start, has_end |-> has_end, mark |-> "",
     bad_start |-> FALSE, bad_end |-> FALSE, own_text |-> FALSE, content |-> <<>>]

PunctKind(mark) ==
    [type |-> "punctuation", dt |-> 0, speaker |-> AbsentLabel, has_alt |-> mark # "",
     has_start |-> FALSE, has_end |-> FALSE, mark |-> mark,
     bad_start |-> FALSE, bad_end |-> FALSE, own_text |-> FALSE, content |-> <<>>]

PlainWord == WordKind(500, "spk_0", TRUE, TRUE, TRUE)

\* a plain word whose alternatives[0].content is the given text
TextWord(content) == [PlainWord EXCEPT !.own_text = TRUE, !.content = content]

\* a text on which json.loads and codecs.decode fail and encode('utf-8') raises
Undecodable == <<SURR, BS, "u4f60", BS>>

\* words with the empty text, an ideograph and an undecodable text
TextKinds == { PlainWord, TextWord(<<>>), TextWord(<<NI>>), TextWord(Undecodable) }

\* a word that is one space
SpaceWord == TextWord(<<SP>>)

\* a word that starts 1.501 s after the word before it: at 1.001 s when it is
\* the first one
InexactWord == WordKind(1501, "spk_0", TRUE, TRUE, TRUE)

\* plain words, words at times that are not multiples of 500 ms, and marks
InexactKinds == { PlainWord, InexactWord, PunctKind("?") }

\* words with a missing or unparsable start_time or end_time
BadKinds ==
    { PlainWord,
      [PlainWord EXCEPT !.has_start = FALSE],
      [PlainWord EXCEPT !.bad_start = TRUE],
      [PlainWord EXCEPT !.has_end = FALSE],
      [PlainWord EXCEPT !.bad_end = TRUE],
      PunctKind(",") }

\* a pause of exactly 4.0 s, a speaker turn after 5.0 s (Scenario D), a pause
\* that skips a minute, a word without alternatives, without end_time and
\* speaker_label, without start_time, and a word out of order
WordKinds ==
    { PlainWord,
      WordKind(500, "spk_1", TRUE, TRUE, TRUE),
      WordKind(4000, "spk_0", TRUE, TRUE, TRUE),
      WordKind(5000, "spk_1", TRUE, TRUE, TRUE),
      WordKind(125000, "spk_0", TRUE, TRUE, TRUE),
      WordKind(4500, "spk_1", FALSE, TRUE, TRUE),
      WordKind(500, AbsentLabel, TRUE, TRUE, FALSE),
      WordKind(500, "spk_0", TRUE, FALSE, TRUE),
      WordKind(-1000, "spk_0", TRUE, TRUE, TRUE) }

PunctKinds == { PunctKind("?"), PunctKind(","), PunctKind("") }

Kinds == WordKinds \cup PunctKinds

\* the kinds that follow a run of plain words
TailKinds ==
    { PlainWord,
      WordKind(500, "spk_1", TRUE, TRUE, TRUE),
      WordKind(4000, "spk_0", TRUE, TRUE, TRUE),
      WordKind(5000, "spk_1", TRUE, TRUE, TRUE),
      WordKind(125000, "spk_0", TRUE, TRUE, TRUE),
      WordKind(4500, "spk_1", FALSE, TRUE, TRUE),
      PunctKind("?"), PunctKind(",") }

\* the kinds that follow a run of 150 words or more
LongTailKinds == { PlainWord, WordKind(500, "spk_1", TRUE, TRUE, TRUE), PunctKind(",") }

SeqsUpTo(S, n) == UNION { [1..m -> S] : m \in 0..n }

\* the items of a list of kinds, appended to the items acc: the p-th item of
\* the input is the word "w<p>", a word starts dt after the start t of the
\* previous word (never before 0) and lasts 500 ms
RECURSIVE BuildItems(_, _, _, _)
BuildItems(kinds, q, t, acc) ==
    IF q > Len(kinds) THEN acc
    ELSE LET k == kinds[q]
             p == Len(acc) + 1
             st == IF t + k.dt < 0 THEN 0 ELSE t + k.dt
         IN  IF k.type = "punctuation"
             THEN BuildItems(kinds, q + 1, t,
                      Append(acc, [Punctuation(IF k.has_alt THEN Alt(<<k.mark>>) ELSE <<>>)
                                      EXCEPT !.end_time = IF k.bad_end THEN Unparsable
                                                          ELSE IF k.has_end THEN t + 1000 + k.dt
                                                          ELSE Missing]))
             ELSE BuildItems(kinds, q + 1, st,
                      Append(acc, Word(IF ~k.has_start THEN Missing
                                       ELSE IF k.bad_start THEN Unparsable ELSE st,
                                       IF ~k.has_end THEN Missing
                                       ELSE IF k.bad_end THEN Unparsable ELSE st + 500,
                                       k.speaker,
                                       IF ~k.has_alt THEN <<>>
                                       ELSE IF k.own_text THEN Alt(k.content)
                                       ELSE Alt(<<"w" \o ToString(p)>>))))

\* n plain words of one speaker, one every 500 ms
Fill(n) ==
    [p \in 1..n |-> Word(500 * (p - 1), 500 * (p - 1) + 500, "spk_0",
                         Alt(<<"w" \o ToString(p)>>))]

\* a run of n plain words followed by a list of kinds
FillThen(n, tail) == BuildItems(tail, 1, 500 * (n - 1), Fill(n))

ShortFills == { MinSpeakerWords - 1, MinSpeakerWords, MinPauseWords - 1, MinPauseWords }
LongFills == { MaxWords - 1, MaxWords, MaxWords + 1, MaxWords + 10, 2 * MaxWords + 1 }

\* a Word token without alternatives
Textless(dt, speaker) == WordKind(dt, speaker, FALSE, TRUE, TRUE)

\* text-less words and words with text, close and after a pause, of both speakers
TextlessKinds ==
    { Textless(500, "spk_0"), Textless(4500, "spk_0"), Textless(500, "spk_1"),
      PlainWord, WordKind(4500, "spk_0", TRUE, TRUE, TRUE), WordKind(500, "spk_1", TRUE, TRUE, TRUE) }

\* 15 words and "?" of one speaker, 15 words and "?" of the other, then a
\* word two minutes later: two sentences of minute 0 and one of minute 2
TwoMinutes ==
    BuildItems([k \in 1..33 |->
                   IF k \in {16, 32} THEN PunctKind("?")
                   ELSE IF k < 16 THEN PlainWord
                   ELSE IF k < 32 THEN WordKind(500, "spk_1", TRUE, TRUE, TRUE)
                   ELSE WordKind(125000, "spk_0", TRUE, TRUE, TRUE)],
               1, -500, <<>>)

\* a sentence closed by the speaker rule, then a word of the other speaker
SpeakerTurn == <<PunctKind("?"), WordKind(500, "spk_1", TRUE, TRUE, TRUE)>>

\* a mark that no word takes: plain, with an end_time 0.5 s after the end of
\* the word before it, and with an unparsable end_time
LooseMarks ==
    { PunctKind(","), [PunctKind(",") EXCEPT !.has_end = TRUE],
      [PunctKind(",") EXCEPT !.bad_end = TRUE] }

\* a mark with an end_time 1 s before the start of the word before it
EarlyMark == [PunctKind(",") EXCEPT !.has_end = TRUE, !.dt = -2000]

ItemLists ==
    { FillThen(0, tail) : tail \in SeqsUpTo(Kinds, MaxShort) }
    \cup { FillThen(n, tail) : n \in ShortFills, tail \in SeqsUpTo(TailKinds, MaxTail) }
    \cup { FillThen(n, tail) : n \in LongFills, tail \in SeqsUpTo(LongTailKinds, MaxLongTail) }
    \cup { FillThen(0, tail) : tail \in SeqsUpTo(TextKinds, MaxText) }
    \cup { FillThen(0, tail) : tail \in SeqsUpTo(BadKinds, MaxBad) }
    \cup { FillThen(MinSpeakerWords, SpeakerTurn \o tail) : tail \in SeqsUpTo(BadKinds, MaxBad) }
    \cup { FillThen(n, <<PunctKind("?")>> \o tail) :
               n \in {MinSpeakerWords, MinPauseWords}, tail \in SeqsUpTo(TextlessKinds, MaxTextless) }
    \cup { FillThen(0, tail) : tail \in SeqsUpTo(InexactKinds, MaxInexact) }
    \cup { FillThen(n, <<PunctKind("?"), loose>> \o tail) :
               n \in {MinSpeakerWords - 1, MinSpeakerWords}, loose \in LooseMarks,
               tail \in SeqsUpTo(LongTailKinds, MaxTail) }
    \cup { FillThen(MinSpeakerWords, SpeakerTurn \o <<PunctKind("?"), loose>>) :
               loose \in LooseMarks \cup {EarlyMark} }

\* Scenario A of the specification
ScenarioA ==
    << Word(0, 500, "spk_0", Alt(<<"Hello">>)),
       Punctuation(Alt(<<".">>)),
       Word(5200, 5600, "spk_1", Alt(<<"World">>)) >>

\* the Chinese flag is exercised on the shortest lists
Inputs ==
    { [items |-> FillThen(0, tail), is_chinese |-> TRUE] : tail \in SeqsUpTo(Kinds, MaxChinese) }
    \cup { [items |-> FillThen(0, tail), is_chinese |-> TRUE] :
               tail \in SeqsUpTo(TextKinds \cup {SpaceWord}, MaxText) }
    \cup { [items |-> its, is_chinese |-> FALSE] : its \in ItemLists \cup {ScenarioA, TwoMinutes} }

\* the inputs of two invocations that run at the same time: short lists of
\* words of two speakers, a speaker turn after 15 words, a malformed list and
\* a Chinese one
TwoKinds == { PlainWord, WordKind(500, "spk_1", TRUE, TRUE, TRUE), PunctKind("?") }

TwoInputs ==
    { [items |-> FillThen(0, tail), is_chinese |-> FALSE] : tail \in SeqsUpTo(TwoKinds, MaxTwo) }
    \cup { [items |-> FillThen(MinSpeakerWords, SpeakerTurn), is_chinese |-> FALSE],
           [items |-> FillThen(0, <<PlainWord, [PlainWord EXCEPT !.has_start = FALSE]>>),
            is_chinese |-> FALSE],
           [items |-> FillThen(0, <<TextWord(<<NI>>), TextWord(<<NI>>)>>), is_chinese |-> TRUE] }

\* Scenario C of the specification: ni hao, space, full-width comma, space,
\* shi jie, space, full-width period
ScenarioC == <<NI, HAO, SP, FWCOMMA, SP, SHI, JIE, SP, FWPERIOD>>

CleanAlphabet == {NI, FWCOMMA, ".", SP, "k", BS, "u4f60", "u005c"}

CleanInputs == SeqsUpTo(CleanAlphabet, MaxCleanLen) \cup {ScenarioC}

\* -------------------------------------------------------------- actions
\* the locals of one invocation of process_transcript_data
Locals ==
    [items |-> items, is_chinese |-> is_chinese, pc |-> pc, i |-> i,
     start_time |-> start_time, segments |-> segments,
     current_minute |-> current_minute, minute_segments |-> minute_segments,
     speaker_count |-> speaker_count, speaker_map |-> speaker_map,
     current_sentence |-> current_sentence,
     sentence_start_time |-> sentence_start_time,
     current_speaker |-> current_speaker,
     should_create_segment |-> should_create_segment]

\* the counter carried over from the invocation before
InitialSpeakerCount_CarriedOver(previous) == previous

\* line 311: speaker_count = 1, whatever an earlier invocation has counted
InitialSpeakerCount(previous) == 1

\* lines 308-319: the locals at the start of an invocation; previous is the
\* speaker_count of the invocation that last ran
InitialLocals(its, chinese, previous) ==
    [items |-> its, is_chinese |-> chinese, pc |-> "scan", i |-> 0,
     start_time |-> None, segments |-> <<>>,
     current_minute |-> -1, minute_segments |-> <<>>,
     speaker_count |-> InitialSpeakerCount(previous), speaker_map |-> << >>,
     current_sentence |-> <<>>,
     sentence_start_time |-> None,
     current_speaker |-> NoSpeaker,
     should_create_segment |-> FALSE]

\* no invocation
IdleLocals == [InitialLocals(<<>>, FALSE, 1) EXCEPT !.pc = "idle"]

\* the locals of the invocation are those of the record
Assign(l) ==
    \E r \in {l} :
        /\ items' = r.items /\ is_chinese' = r.is_chinese /\ pc' = r.pc /\ i' = r.i
        /\ start_time' = r.start_time /\ segments' = r.segments
        /\ current_minute' = r.current_minute /\ minute_segments' = r.minute_segments
        /\ speaker_count' = r.speaker_count /\ speaker_map' = r.speaker_map
        /\ current_sentence' = r.current_sentence
        /\ sentence_start_time' = r.sentence_start_time
        /\ current_speaker' = r.current_speaker
        /\ should_create_segment' = r.should_create_segment

ScanInitFrom(inputs) ==
    /\ \E inp \in inputs : items = inp.items /\ is_chinese = inp.is_chinese
    /\ pc = "scan"
    /\ i = 0
    /\ start_time = None
    /\ segments = <<>>
    /\ current_minute = -1
    /\ minute_segments = <<>>
    /\ speaker_count = InitialSpeakerCount(1)
    /\ speaker_map = << >>
    /\ current_sentence = <<>>
    /\ sentence_start_time = None
    /\ current_speaker = NoSpeaker
    /\ should_create_segment = FALSE

ScanIdle ==
    /\ items = <<>> /\ is_chinese = FALSE /\ pc = "idle" /\ i = 0
    /\ start_time = None /\ segments = <<>> /\ current_minute = -1
    /\ minute_segments = <<>> /\ speaker_count = 1 /\ speaker_map = << >>
    /\ current_sentence = <<>> /\ sentence_start_time = None
    /\ current_speaker = NoSpeaker /\ should_create_segment = FALSE

ScanInit == ScanInitFrom(Inputs)

\* an empty dict
EmptyDict == [k \in {} |-> k]

\* a key that a dict does not hold, as .get returns it
NoValue == "None"

\* what a handler of the transcription service returned
Reply(code, episode_id, task_id, status, transcript) ==
    [code |-> code, episode_id |-> episode_id, task_id |-> task_id,
     status |-> status, transcript |-> transcript]

NoReply == Reply(0, NoValue, NoValue, NoValue, NoValue)

\* the transcription service has served nothing
ServiceIdle ==
    /\ transcription_tasks = EmptyDict /\ active_episodes = EmptyDict
    /\ tbl_transcript = EmptyDict /\ supabase = FALSE
    /\ clock = 0 /\ background = <<>> /\ posts = 0 /\ reply = NoReply

\* a reader thread: the events its Bedrock stream will give, how many it has
\* put on the queue, and whether it was started
Reader(events, started) == [events |-> events, put |-> 0, started |-> started]

\* no /summarize request
StreamIdle ==
    /\ queue = <<>> /\ claude = Reader(<<>>, FALSE) /\ titan = Reader(<<>>, FALSE)
    /\ gpc = "idle"
    /\ full_text = <<>> /\ streamed_chars = 0 /\ client_closed = FALSE
    /\ max_client_chars = 0 /\ allow_full_stream = FALSE /\ sent = <<>>
    /\ no_persist = FALSE /\ written = <<>>

CleanIdle == text = <<>> /\ once = <<>> /\ twice = <<>> /\ cpc = "idle"

OtherIdle == other = IdleLocals

\* line 444: monitor_asr_task has called process_transcript_data
CallerInit == mpc = "processing" /\ flat_segments = <<>>

Init == ScanInit /\ CleanIdle /\ OtherIdle /\ CallerInit /\ ServiceIdle /\ StreamIdle

\* raise HTTPException(status_code=500, ...): nothing is returned
Raise(l) == [l EXCEPT !.pc = "error"]

\* one iteration of the while loop, lines 321-397
Iteration(l) ==
    LET item == l.items[l.i + 1]
        word == IsWord(item)
        \* lines 325-333
        st == IF word THEN item.start_time ELSE l.start_time
        label == SpeakerLabel(item)
        opens == word /\ l.sentence_start_time = None
        sst == IF opens THEN st ELSE l.sentence_start_time
        new_label == opens /\ label \notin DOMAIN l.speaker_map
        map == IF new_label
               THEN l.speaker_map @@ (label :> DisplayLabel(l.speaker_count))
               ELSE l.speaker_map
        cnt == IF new_label THEN l.speaker_count + 1 ELSE l.speaker_count
        spk == IF opens THEN label ELSE l.current_speaker
        \* lines 335-344
        has_text == word /\ HasAlternatives(item)
        merges == has_text /\ l.i + 1 < Len(l.items) /\ ~IsWord(l.items[l.i + 2])
        entry == IF merges THEN MergePunctuation(Content(item), Content(l.items[l.i + 2]))
                 ELSE Content(item)
        cs == IF has_text THEN AppendWord(l.current_sentence, entry) ELSE l.current_sentence
        j == IF merges THEN l.i + 1 ELSE l.i
        \* lines 347-364
        has_next == j + 1 < Len(l.items)
        next_item == l.items[j + 2]
        looks == cs # <<>> /\ has_next /\ IsWord(next_item)
        should == IF cs = <<>> THEN FALSE
                  ELSE IF has_next
                       THEN /\ IsWord(next_item)
                            /\ BoundaryRule(IsSentenceEnd(cs[Len(cs)]),
                                            next_item.start_time, st,
                                            SpeakerLabel(next_item), spk, Len(cs))
                       ELSE TRUE
        \* lines 366-387
        minute == MinuteOf(sst)
        closes == ClosesGroup(l.current_minute, minute, l.minute_segments)
        seg == TranscriptionSegment(ToMs(sst), EndMsOf(item, st), SentenceText(cs, l.is_chinese),
                                    SpeakerId(map, spk))
        \* lines 389-395
        reopens == has_next /\ IsWord(next_item)
        fails == \/ word /\ StartTimeRaises(item)
                 \/ merges /\ ~HasAlternatives(l.items[l.i + 2])
                 \/ looks /\ StartTimeRaises(next_item)
                 \/ should /\ EndTimeRaises(item)
        scanned == [l EXCEPT !.start_time = st, !.speaker_map = map, !.speaker_count = cnt,
                             !.should_create_segment = should, !.i = NextIndex(j)]
    IN  IF fails THEN Raise(l)
        ELSE IF should
        THEN [scanned EXCEPT
                !.segments = IF closes
                             THEN Append(l.segments,
                                         MinuteSegment(l.current_minute, l.minute_segments))
                             ELSE l.segments,
                !.minute_segments = Append(IF closes THEN <<>> ELSE l.minute_segments, seg),
                !.current_minute = minute,
                !.current_sentence = <<>>,
                !.sentence_start_time = IF reopens THEN next_item.start_time ELSE None,
                !.current_speaker = IF reopens THEN SpeakerLabel(next_item) ELSE NoSpeaker]
        ELSE [scanned EXCEPT !.current_sentence = cs, !.sentence_start_time = sst,
                             !.current_speaker = spk]

\* lines 399-426: the residual sentence, the last minute group, the return
Return(l) ==
    LET residual == l.current_sentence # <<>>
        minute == MinuteOf(l.sentence_start_time)
        closes == residual /\ ClosesGroup(l.current_minute, minute, l.minute_segments)
        seg == TranscriptionSegment(ToMs(l.sentence_start_time),
                                    EndMsOf(l.items[Len(l.items)], l.sentence_start_time),
                                    SentenceText(l.current_sentence, l.is_chinese),
                                    SpeakerId(l.speaker_map, l.current_speaker))
        segs == IF closes
                THEN Append(l.segments, MinuteSegment(l.current_minute, l.minute_segments))
                ELSE l.segments
        msegs == IF residual
                 THEN Append(IF closes THEN <<>> ELSE l.minute_segments, seg)
                 ELSE l.minute_segments
        cm == IF residual THEN minute ELSE l.current_minute
    IN  [l EXCEPT !.segments = ReturnValue(segs, cm, msegs),
                  !.minute_segments = msegs,
                  !.current_minute = cm,
                  !.pc = "done"]

\* an iteration whose item is a word
ScanWord ==
    /\ pc = "scan" /\ i < Len(items) /\ IsWord(items[i + 1])
    /\ Assign(Iteration(Locals))
    /\ UNCHANGED <<cleanVars, other, callerVars, serviceVars, streamVars>>

\* an iteration whose item is a punctuation mark that no word has taken
ScanPunctuation ==
    /\ pc = "scan" /\ i < Len(items) /\ ~IsWord(items[i + 1])
    /\ Assign(Iteration(Locals))
    /\ UNCHANGED <<cleanVars, other, callerVars, serviceVars, streamVars>>

\* the loop has ended
Finish ==
    /\ pc = "scan" /\ i >= Len(items)
    /\ Assign(Return(Locals))
    /\ UNCHANGED <<cleanVars, other, callerVars, serviceVars, streamVars>>

\* lines 450-455: the entry of one segment
FlatSegment(segment) ==
    [StartMs |-> segment.StartMs, EndMs |-> segment.EndMs,
     FinalSentence |-> segment.FinalSentence, SpeakerId |-> segment.SpeakerId]

\* the first segment of each minute only
RECURSIVE FlatSegments_FirstOfEach(_)
FlatSegments_FirstOfEach(segs) ==
    IF segs = <<>> THEN <<>>
    ELSE <<FlatSegment(Head(segs).segments[1])>> \o FlatSegments_FirstOfEach(Tail(segs))

\* lines 447-455: the two nested loops over the minutes and their segments
RECURSIVE FlatSegments(_)
FlatSegments(segs) ==
    IF segs = <<>> THEN <<>>
    ELSE [k \in DOMAIN Head(segs).segments |-> FlatSegment(Head(segs).segments[k])]
             \o FlatSegments(Tail(segs))

\* lines 444-457: the returned list is flattened
Flattening ==
    /\ pc = "done" /\ mpc = "processing"
    /\ flat_segments' = FlatSegments(segments)
    /\ mpc' = "flattened"
    /\ UNCHANGED <<scanVars, cleanVars, other, serviceVars, streamVars>>

Next == ScanWord \/ ScanPunctuation \/ Finish \/ Flattening

Spec == Init /\ [][Next]_vars

\* the calls whose end is awaited: every short list, the runs of 14 to 20
\* words with a tail, the two scenarios and two lists that reach the cap
LiveInputs ==
    { [items |-> its, is_chinese |-> FALSE] :
        its \in { FillThen(0, tail) : tail \in SeqsUpTo(Kinds, MaxLive) }
                 \cup { FillThen(n, tail) :
                            n \in ShortFills, tail \in SeqsUpTo(TailKinds, MaxLive) }
                 \cup { ScenarioA, TwoMinutes, FillThen(MaxWords + 10, <<>>),
                        FillThen(2 * MaxWords + 1, <<PunctKind(",")>>) } }

InitLive == ScanInitFrom(LiveInputs) /\ CleanIdle /\ OtherIdle /\ CallerInit /\ ServiceIdle /\ StreamIdle

\* the loop of line 321, the return and the caller run without being
\* suspended: a step that can be taken is taken
SpecLive == InitLive /\ [][Next]_vars /\ WF_vars(Next)

\* two invocations of process_transcript_data whose steps interleave: the
\* second one starts at any moment of the first
InitTwo == ScanInitFrom(TwoInputs) /\ CleanIdle /\ OtherIdle /\ CallerInit /\ ServiceIdle /\ StreamIdle

OtherBegin ==
    /\ other.pc = "idle"
    /\ \E inp \in TwoInputs :
          other' = InitialLocals(inp.items, inp.is_chinese, speaker_count)
    /\ UNCHANGED <<scanVars, cleanVars, callerVars, serviceVars, streamVars>>

OtherScan ==
    /\ other.pc = "scan" /\ other.i < Len(other.items)
    /\ other' = Iteration(other)
    /\ UNCHANGED <<scanVars, cleanVars, callerVars, serviceVars, streamVars>>

OtherFinish ==
    /\ other.pc = "scan" /\ other.i >= Len(other.items)
    /\ other' = Return(other)
    /\ UNCHANGED <<scanVars, cleanVars, callerVars, serviceVars, streamVars>>

NextTwo == ScanWord \/ ScanPunctuation \/ Finish \/ OtherBegin \/ OtherScan \/ OtherFinish

SpecTwo == InitTwo /\ [][NextTwo]_vars

\* clean_chinese_text applied to a text, and to its own result
CleanInit ==
    /\ ScanIdle /\ OtherIdle /\ CallerInit /\ ServiceIdle /\ StreamIdle
    /\ text \in CleanInputs /\ once = <<>> /\ twice = <<>> /\ cpc = "start"

CleanOnce ==
    /\ cpc = "start"
    /\ once' = clean_chinese_text(text)
    /\ cpc' = "once"
    /\ UNCHANGED <<text, twice, scanVars, other, callerVars, serviceVars, streamVars>>

CleanTwice ==
    /\ cpc = "once"
    /\ twice' = clean_chinese_text(once)
    /\ cpc' = "twice"
    /\ UNCHANGED <<text, once, scanVars, other, callerVars, serviceVars, streamVars>>

NextClean == CleanOnce \/ CleanTwice

SpecClean == CleanInit /\ [][NextClean]_vars

\* ------------------------------------------------------------- properties
RECURSIVE Flatten(_)
Flatten(groups) ==
    IF groups = <<>> THEN <<>> ELSE Head(groups).segments \o Flatten(Tail(groups))

\* the sentences emitted so far, in order
Emitted ==
    IF pc = "done" THEN Flatten(segments) ELSE Flatten(segments) \o minute_segments

\* the number of entries of a joined sentence
NumWords(sentence) == 1 + Cardinality({p \in DOMAIN sentence : sentence[p] = SP})

\* the entries of a joined sentence
RECURSIVE SplitWords(_)
SplitWords(sentence) ==
    LET sps == {p \in DOMAIN sentence : sentence[p] = SP}
        mid == (Len(sentence) + 1) \div 2
        Dist(p) == IF p < mid THEN mid - p ELSE p - mid
    IN  IF sps = {} THEN <<sentence>>
        ELSE LET m == CHOOSE p \in sps : \A q \in sps : Dist(p) <= Dist(q)
             IN  SplitWords(SubSeq(sentence, 1, m - 1))
                     \o SplitWords(SubSeq(sentence, m + 1, Len(sentence)))

RECURSIVE EntriesOf(_)
EntriesOf(segs) ==
    IF segs = <<>> THEN <<>>
    ELSE SplitWords(Head(segs).FinalSentence) \o EntriesOf(Tail(segs))

\* an entry without the punctuation mark merged onto it
StripMerged(entry) ==
    IF Len(entry) > 1 /\ entry[Len(entry)] \in {".", ",", "?"}
    THEN SubSeq(entry, 1, Len(entry) - 1) ELSE entry

TextWords(its) == SelectSeq(its, LAMBDA it : IsWord(it) /\ HasAlternatives(it))

\* alternatives[0].content of the Word tokens that have one, in input order
WordContents(its) == [k \in DOMAIN TextWords(its) |-> Content(TextWords(its)[k])]

\* the Word tokens come in non-decreasing, non-negative start time
Sorted(its) ==
    \A p, q \in DOMAIN its :
        (p < q /\ IsWord(its[p]) /\ IsWord(its[q])) =>
            /\ its[p].start_time >= 0
            /\ its[p].start_time <= its[q].start_time

\* only Word tokens, all with text and of one speaker
Unpunctuated(its) ==
    /\ its # <<>>
    /\ \A p \in DOMAIN its :
          /\ IsWord(its[p]) /\ HasAlternatives(its[p])
          /\ SpeakerLabel(its[p]) = SpeakerLabel(its[1])

\* C1 (as stated): an input with a Word token with a valid timestamp, with
\* or without alternatives, yields at least one Sentence.
C1_SentenceForAnyWord ==
    (pc = "done" /\ \E p \in DOMAIN items : IsWord(items[p]) /\ items[p].start_time >= 0)
        => Emitted # <<>>

\* C1 (amended): when the call returns and the input has a Word token with
\* non-empty alternatives, the output has at least one Sentence and no empty
\* minute group.
C1_SentenceForTextWord ==
    (pc = "done" /\ TextWords(items) # <<>>)
        => /\ segments # <<>>
           /\ \A g \in DOMAIN segments : segments[g].segments # <<>>

C1_Witness ==
    /\ pc = "done" /\ segments # <<>>
    /\ \E p \in DOMAIN items : IsWord(items[p]) /\ ~HasAlternatives(items[p])

\* C2: the accumulator never holds more than 150 entries after any prefix of
\* the scan, and no emitted Sentence has more than 150 words.
C2_AtMost150Words ==
    /\ Len(current_sentence) <= MaxWords
    /\ \A k \in DOMAIN Emitted : NumWords(Emitted[k].FinalSentence) <= MaxWords

C2_Witness ==
    /\ pc = "scan" /\ current_sentence # <<>>
    /\ \E k \in DOMAIN Emitted : NumWords(Emitted[k].FinalSentence) = MaxWords
    /\ \E p \in DOMAIN items : ~IsWord(items[p])

\* C3: for an input ordered by non-decreasing, non-negative start time the
\* minute values of the returned groups are non-negative and strictly
\* increasing.
C3_MinutesIncrease ==
    (pc = "done" /\ Sorted(items))
        => \A a, b \in DOMAIN segments :
              /\ segments[a].minute >= 0
              /\ a < b => segments[a].minute < segments[b].minute

C3_Witness ==
    /\ pc = "done" /\ Sorted(items) /\ Len(segments) >= 2
    /\ segments[2].minute > segments[1].minute + 1

\* C4: with is_chinese false the entries of the emitted sentences, without
\* their merged punctuation, are the contents of the input Word tokens in
\* input order, each once.
C4_WordsPreserved ==
    (pc = "done" /\ ~is_chinese)
        => LET entries == EntriesOf(Emitted)
           IN  IF Emitted = <<>> THEN WordContents(items) = <<>>
               ELSE [k \in DOMAIN entries |-> StripMerged(entries[k])] = WordContents(items)

C4_Witness ==
    /\ pc = "done" /\ ~is_chinese /\ Len(Emitted) >= 2
    /\ \E k \in DOMAIN EntriesOf(Emitted) : Len(EntriesOf(Emitted)[k]) > 1

\* the Word tokens that start at time t
WordsAt(t) == {p \in DOMAIN items : IsWord(items[p]) /\ items[p].start_time = t}

\* the raw speaker of the only Word token that starts where the sentence starts
OpenerLabel(seg) == SpeakerLabel(items[CHOOSE p \in WordsAt(seg.StartMs) : TRUE])

\* C5: the raw speaker of every open sentence has a display label, and two
\* sentences opened by different raw speakers never carry the same SpeakerId.
C5_LabelsFollowOpenOrder ==
    /\ (pc = "scan" /\ sentence_start_time # None) => current_speaker \in DOMAIN speaker_map
    /\ pc = "done" =>
          \A a, b \in DOMAIN Emitted :
              ( /\ Cardinality(WordsAt(Emitted[a].StartMs)) = 1
                /\ Cardinality(WordsAt(Emitted[b].StartMs)) = 1
                /\ OpenerLabel(Emitted[a]) # OpenerLabel(Emitted[b]) )
                  => Emitted[a].SpeakerId # Emitted[b].SpeakerId

\* C6: Scenario A declares no boundary before the end of the stream and
\* returns the single Sentence "Hello. World", 0 to 5600 ms, with the label
\* of spk_0.
C6_ScenarioA ==
    items = ScenarioA =>
        /\ (pc = "scan" /\ i < Len(items)) => (Emitted = <<>> /\ ~should_create_segment)
        /\ pc # "error"
        /\ pc = "done" =>
              /\ Len(segments) = 1
              /\ Len(Emitted) = 1
              /\ Emitted[1].FinalSentence = <<"Hello", ".", SP, "World">>
              /\ Emitted[1].StartMs = 0
              /\ Emitted[1].EndMs = 5600
              /\ "spk_0" \in DOMAIN speaker_map
              /\ Emitted[1].SpeakerId = speaker_map["spk_0"]

C6_Witness == items = ScenarioA /\ pc = "done"

\* the sentence lengths of n unpunctuated words of one speaker
ExpectedLengths(n) ==
    [k \in 1..((n \div MaxWords) + (IF n % MaxWords = 0 THEN 0 ELSE 1)) |->
        IF k <= n \div MaxWords THEN MaxWords ELSE n % MaxWords]

\* C7: N unpunctuated words of one speaker give sentences of 150 words,
\* floor(N/150) times, then one of N mod 150 words if that is not zero; 160
\* words give 150 and 10.  The words of a sentence are counted in its joined
\* text, which the Chinese normalizer does not keep.
C7_ScenarioB ==
    (pc = "done" /\ ~is_chinese /\ Unpunctuated(items))
        => [k \in DOMAIN Emitted |-> NumWords(Emitted[k].FinalSentence)]
               = ExpectedLengths(Len(items))

C7_Witness ==
    /\ pc = "done" /\ ~is_chinese /\ Unpunctuated(items) /\ Len(items) = MaxWords + 10
    /\ Len(Emitted) = 2
    /\ NumWords(Emitted[1].FinalSentence) = MaxWords
    /\ NumWords(Emitted[2].FinalSentence) = 10

\* C9: a Word token of another speaker never joins a sentence of 15 or more
\* entries whose last entry ends with '.', '!' or '?': the boundary has been
\* declared before the scan reaches it, whatever the pause.
C9_SpeakerRule ==
    (pc = "scan" /\ i < Len(items) /\ IsWord(items[i + 1]) /\ current_sentence # <<>>)
        => ~ ( /\ Len(current_sentence) >= MinSpeakerWords
               /\ IsSentenceEnd(current_sentence[Len(current_sentence)])
               /\ SpeakerLabel(items[i + 1]) # current_speaker )

\* Scenario D: the boundary has just been declared after exactly 15 words, the
\* last one ending with "?", before a word of another speaker 5.0 s later
C9_Witness ==
    /\ pc = "scan" /\ should_create_segment /\ current_sentence = <<>>
    /\ i < Len(items) /\ i >= 1 /\ IsWord(items[i + 1])
    /\ Len(Emitted) = 1
    /\ NumWords(Emitted[1].FinalSentence) = MinSpeakerWords
    /\ Emitted[1].FinalSentence[Len(Emitted[1].FinalSentence)] = "?"
    /\ SpeakerLabel(items[i + 1]) = "spk_1"
    /\ items[i + 1].start_time - start_time = 5000

\* a full-width mark between two ideographs, with whitespace after it
MarkBetweenCJK(t) ==
    /\ Len(t) >= 4 /\ IsCJK(t[1]) /\ IsCJK(t[Len(t)])
    /\ \E q \in 2..(Len(t) - 2) :
          /\ t[q] \in {FWCOMMA, FWPERIOD}
          /\ \A p \in 2..(Len(t) - 1) : p # q => t[p] = SP

\* C8 (as stated): Scenario C is normalized to the text without any whitespace.
C8_NoWhitespaceLeft ==
    (cpc = "once" /\ text = ScenarioC)
        => once = <<NI, HAO, FWCOMMA, SHI, JIE, FWPERIOD>>

\* C8 (amended): Scenario C is normalized to ni hao, comma, one space, shi
\* jie, period; whitespace before a mark is removed and the whitespace after
\* a full-width mark between two ideographs is collapsed to one space.
C8_OneSpaceAfterMark ==
    cpc = "once" =>
        /\ text = ScenarioC => once = <<NI, HAO, FWCOMMA, SP, SHI, JIE, FWPERIOD>>
        /\ \A p \in 1..(Len(once) - 1) : IsWs(once[p]) => ~IsPunct(once[p + 1])
        /\ MarkBetweenCJK(text) =>
              \E q \in 2..(Len(text) - 2) :
                  /\ IsPunct(text[q])
                  /\ once = <<text[1], text[q], SP, text[Len(text)]>>

C8_Witness == cpc = "once" /\ text = ScenarioC

\* C10: clean_chinese_text applied twice gives what it gives applied once.
C10_Idempotent == cpc = "twice" => twice = once

\* no item of the list is a Word token
NoWordToken(its) == \A p \in DOMAIN its : its[p].type = "punctuation"

\* C11: an input with no Word token (an empty list or punctuation items
\* only) never raises and returns the empty list of minute groups.
C11_EmptyOutputWithoutWords ==
    NoWordToken(items) =>
        /\ pc # "error"
        /\ segments = <<>> /\ minute_segments = <<>>

C11_Witness ==
    /\ pc = "done" /\ segments = <<>>
    /\ items # <<>> /\ NoWordToken(items)
    /\ \E p \in DOMAIN items : ~HasAlternatives(items[p])

\* the Word tokens whose start_time, or end_time, is missing or unparsable
BadStartWords == {p \in DOMAIN items : items[p].type # "punctuation" /\ items[p].start_time < 0}
BadEndWords == {p \in DOMAIN items : items[p].type # "punctuation" /\ items[p].end_time < 0}

\* the scan has gone through all the items, or the call has returned
ScanCompleted == pc = "done" \/ (pc = "scan" /\ i >= Len(items))

\* C12 (as stated): a Word token with a missing or unparsable start_time or
\* end_time makes the call end in an error.
C12_AnyBadTimestampFails ==
    (BadStartWords \cup BadEndWords # {}) => ~ScanCompleted

\* C12 (amended): a Word token with a missing or unparsable start_time makes
\* the call end in an error, whatever was finalized before; a missing end_time
\* never does, and an unparsable end_time does only at the item that closes a
\* sentence.
C12_BadStartTimeFails ==
    /\ BadStartWords # {} => ~ScanCompleted
    /\ pc = "error" =>
          \/ BadStartWords # {}
          \/ \E p \in DOMAIN items : items[p].type = "punctuation" /\ items[p].alternatives = <<>>
          \/ /\ i < Len(items) /\ items[i + 1].end_time = Unparsable
             /\ current_sentence # <<>> \/ items[i + 1].alternatives # <<>>

\* a sentence was finalized before the scan reached the Word token without a
\* usable start_time
C12_Witness ==
    /\ pc = "error" /\ Emitted # <<>>
    /\ BadStartWords # {}
    /\ \E p \in BadStartWords : items[p].start_time = Unparsable

\* the positions of the Word tokens that have a text, in input order
TextPositions(its) ==
    SelectSeq([p \in 1..Len(its) |-> p],
              LAMBDA p : its[p].type # "punctuation" /\ its[p].alternatives # <<>>)

\* the text of the punctuation item that follows position p, if there is one
MarkAfter(its, p) ==
    IF p < Len(its) /\ its[p + 1].type = "punctuation" /\ its[p + 1].alternatives # <<>>
    THEN its[p + 1].alternatives[1].content ELSE <<>>

\* the words of the input with the marks that follow them
RawEntries(its) ==
    [k \in DOMAIN TextPositions(its) |->
        its[TextPositions(its)[k]].alternatives[1].content \o MarkAfter(its, TextPositions(its)[k])]

\* the words of the input joined by single spaces, before any normalization
RawText(its) == Join(RawEntries(its))

\* what can make the call raise: a Word token without a usable start_time, a
\* punctuation item without alternatives, an unparsable end_time
MalformedItems ==
    {p \in DOMAIN items :
        \/ items[p].type # "punctuation" /\ items[p].start_time < 0
        \/ items[p].type = "punctuation" /\ items[p].alternatives = <<>>
        \/ items[p].end_time = Unparsable}

\* C13: when clean_chinese_text fails on the text of a sentence, the sentence
\* is emitted with the text exactly as it was joined, and the call does not
\* raise: it raises on malformed items only.
C13_NormalizerFailureKeepsText ==
    is_chinese =>
        /\ (pc = "error") => MalformedItems # {}
        /\ ( /\ pc = "done" /\ Len(items) < MinSpeakerWords
             /\ RawEntries(items) # <<>> /\ DecodeRaises(RawText(items)) )
               => /\ Len(Emitted) = 1
                  /\ Emitted[1].FinalSentence = RawText(items)

\* the text that was kept starts with whitespace, which the normalizer trims
C13_Witness ==
    /\ pc = "done" /\ is_chinese /\ Len(Emitted) = 1
    /\ DecodeRaises(RawText(items))
    /\ Emitted[1].FinalSentence = RawText(items)
    /\ Head(RawText(items)) = SP

\* a Word token without text
IsTextless(item) == item.type # "punctuation" /\ item.alternatives = <<>>

\* the three rules on a sentence, the time to the next Word token and its speaker
RuleHolds(sentence, gap, speaker_changed) ==
    LET ends == IsSentenceEnd(sentence[Len(sentence)])
    IN  \/ ends /\ gap > PauseMs /\ Len(sentence) >= MinPauseWords
        \/ speaker_changed /\ ends /\ Len(sentence) >= MinSpeakerWords
        \/ Len(sentence) >= MaxWords

\* a step of the scan at a Word token without text
C14_AtTextless ==
    LET item == items[i + 1]
        has_next == i + 1 < Len(items)
        nxt == items[i + 2]
        last == Emitted'[Len(Emitted')]
    IN  (pc = "scan" /\ i < Len(items) /\ IsTextless(item) /\ item.start_time >= 0) =>
          /\ pc' = "error" =>
                \/ current_sentence # <<>> /\ has_next /\ nxt.type # "punctuation"
                      /\ nxt.start_time < 0
                \/ item.end_time = Unparsable
          /\ pc' = "scan" =>
                /\ i' = i + 1
                /\ start_time' = item.start_time
                /\ sentence_start_time = None =>
                      /\ current_sentence' = <<>>
                      /\ sentence_start_time' = item.start_time
                      /\ current_speaker' = SpeakerLabel(item)
                      /\ SpeakerLabel(item) \in DOMAIN speaker_map'
                /\ should_create_segment' =
                      ( /\ current_sentence # <<>>
                        /\ has_next =>
                              /\ nxt.type # "punctuation"
                              /\ RuleHolds(current_sentence, nxt.start_time - item.start_time,
                                           SpeakerLabel(nxt) # current_speaker) )
                /\ IF should_create_segment'
                   THEN /\ current_sentence' = <<>>
                        /\ Len(Emitted') = Len(Emitted) + 1
                        /\ last.EndMs = IF item.end_time = Missing THEN item.start_time
                                        ELSE item.end_time
                   ELSE current_sentence' = current_sentence /\ Emitted' = Emitted

\* a step of the scan that leaves a Word token without text as the next item
C14_AsLookahead ==
    LET nxt == items[i' + 1]
    IN  (pc' = "scan" /\ i' < Len(items) /\ IsTextless(nxt)) =>
           IF should_create_segment'
           THEN /\ sentence_start_time' = nxt.start_time
                /\ current_speaker' = SpeakerLabel(nxt)
           ELSE current_sentence' # <<>> =>
                   ~RuleHolds(current_sentence', nxt.start_time - start_time',
                              SpeakerLabel(nxt) # current_speaker')

\* C14: a Word token without alternatives adds no entry and raises no error
\* of its own, opens a sentence when none is open, has the boundary test
\* evaluated at it with its own start time, and is the lookahead of the step
\* before it.
C14_TextlessWordIsScanned == [][C14_AtTextless /\ C14_AsLookahead]_vars

\* the pause rule has just closed a sentence at a Word token without text,
\* the pause being measured from that token
C14_Witness ==
    /\ pc = "scan" /\ i >= 1 /\ i < Len(items) /\ IsTextless(items[i])
    /\ should_create_segment /\ Len(Emitted) = 1
    /\ NumWords(Emitted[1].FinalSentence) = MinPauseWords
    /\ Emitted[1].EndMs = items[i].end_time
    /\ items[i + 1].start_time - items[i].start_time > PauseMs
    /\ SpeakerLabel(items[i + 1]) = SpeakerLabel(items[i])

\* an invocation run from its start to its end with no other invocation
RECURSIVE RunToEnd(_)
RunToEnd(l) ==
    IF l.pc # "scan" THEN l
    ELSE IF l.i < Len(l.items) THEN RunToEnd(Iteration(l))
    ELSE Return(l)

Alone(its, chinese) ==
    RunToEnd([items |-> its, is_chinese |-> chinese, pc |-> "scan", i |-> 0,
              start_time |-> None, segments |-> <<>>,
              current_minute |-> -1, minute_segments |-> <<>>,
              speaker_count |-> 1, speaker_map |-> << >>,
              current_sentence |-> <<>>, sentence_start_time |-> None,
              current_speaker |-> NoSpeaker, should_create_segment |-> FALSE])

\* the invocation has ended the way it ends alone, with the same output
EndsAsAlone(l) ==
    l.pc \in {"done", "error"} =>
        /\ l.pc = Alone(l.items, l.is_chinese).pc
        /\ l.pc = "done" => l.segments = Alone(l.items, l.is_chinese).segments

\* the speaker map holds raw ids of the invocation's own items only, and the
\* first of them is "Speaker 1"
OwnSpeakerMap(l) ==
    /\ \A k \in DOMAIN l.speaker_map :
          \E p \in DOMAIN l.items : SpeakerLabel(l.items[p]) = k
    /\ l.speaker_map # << >> =>
          \E k \in DOMAIN l.speaker_map : l.speaker_map[k] = "Speaker 1"

SentencesBefore(g) ==
    Cardinality(UNION { {<<h, k>> : k \in DOMAIN segments[h].segments} : h \in 1..(g - 1) })

\* C16: the flattened output has one entry per Sentence of the nested
\* result, in the order of the minute groups and of the sentences in them,
\* with StartMs, EndMs, FinalSentence and SpeakerId unchanged and no other
\* field.
C16_FlattenKeepsSentences ==
    mpc = "flattened" =>
        /\ Len(flat_segments) = SentencesBefore(Len(segments) + 1)
        /\ \A n \in DOMAIN flat_segments :
              DOMAIN flat_segments[n] = {"StartMs", "EndMs", "FinalSentence", "SpeakerId"}
        /\ \A g \in DOMAIN segments : \A k \in DOMAIN segments[g].segments :
              LET sentence == segments[g].segments[k]
                  entry == flat_segments[SentencesBefore(g) + k]
              IN  /\ entry.StartMs = sentence.StartMs
                  /\ entry.EndMs = sentence.EndMs
                  /\ entry.FinalSentence = sentence.FinalSentence
                  /\ entry.SpeakerId = sentence.SpeakerId

\* two sentences of one minute and a third of a later minute were flattened
C16_Witness ==
    /\ mpc = "flattened" /\ Len(segments) = 2
    /\ Len(segments[1].segments) = 2 /\ Len(flat_segments) = 3
    /\ flat_segments[3].StartMs = segments[2].segments[1].StartMs

\* C17: every emitted Sentence has a non-empty text, with is_chinese true
\* or false.
C17_NonEmptyText ==
    \A k \in DOMAIN Emitted : Emitted[k].FinalSentence # <<>>

\* the scan stands before a Word token with a sentence of 20 entries or more
\* that ends with '.', '!' or '?' still open
OpenBeforeWord ==
    /\ pc = "scan" /\ i < Len(items) /\ items[i + 1].type # "punctuation"
    /\ Len(current_sentence) >= MinPauseWords
    /\ IsSentenceEnd(current_sentence[Len(current_sentence)])

\* C18 (as stated): the pause of rule (a) is measured from the start of the
\* sentence: a sentence of 20 entries or more that ends with '.', '!' or '?'
\* is closed before a Word token that starts more than 4.0 s after the
\* sentence started.
C18_PauseFromSentenceStart ==
    OpenBeforeWord => items[i + 1].start_time - sentence_start_time <= PauseMs

\* C18 (amended): the pause of rule (a) is measured from the start of the
\* Word token last scanned: such a sentence is closed before a Word token
\* that starts more than 4.0 s after that token started.
C18_PauseFromCurrentWord ==
    OpenBeforeWord => items[i + 1].start_time - start_time <= PauseMs

\* rule (a) has just closed a sentence of exactly 20 words before a word of
\* the same speaker that starts 4.5 s after the last word
C18_Witness ==
    /\ pc = "scan" /\ should_create_segment /\ current_sentence = <<>>
    /\ i < Len(items) /\ items[i + 1].type # "punctuation"
    /\ Len(Emitted) = 1
    /\ NumWords(Emitted[1].FinalSentence) = MinPauseWords
    /\ SpeakerLabel(items[i + 1]) = "spk_0" /\ items[1].speaker_label = "spk_0"
    /\ items[i + 1].start_time - start_time = 4500

\* a step of the scan that closes a sentence while a token is left: the
\* token left is a Word token and one of the three rules holds of the entries
\* of the sentence, with the pause measured from the token scanned and, the
\* tokens being in time order, from the start of the sentence as well
C19_ClosedOnlyByRule ==
    LET item == items[i + 1]
        nxt == items[i' + 1]
        has_text == IsWord(item) /\ item.alternatives # <<>>
        n == Len(current_sentence) + (IF has_text THEN 1 ELSE 0)
        last == IF ~has_text THEN current_sentence[Len(current_sentence)]
                ELSE IF i' = i + 2 THEN Content(item) \o Content(items[i + 2])
                ELSE Content(item)
        ends == IsSentenceEnd(last)
        now == IF IsWord(item) THEN item.start_time ELSE start_time
        opens == sentence_start_time = None
        began == IF opens THEN now ELSE sentence_start_time
        changed == SpeakerLabel(nxt) # (IF opens THEN SpeakerLabel(item) ELSE current_speaker)
        Rules(gap) == \/ ends /\ gap > PauseMs /\ n >= MinPauseWords
                      \/ changed /\ ends /\ n >= MinSpeakerWords
                      \/ n >= MaxWords
    IN  ( /\ pc = "scan" /\ i < Len(items) /\ pc' = "scan"
          /\ Len(Emitted') = Len(Emitted) + 1 /\ i' < Len(items) ) =>
            /\ IsWord(nxt)
            /\ n >= 1
            /\ Rules(nxt.start_time - now)
            /\ Rules(nxt.start_time - began)

\* every sentence of the result but the last has 150 words or more, or ends
\* with '.', '!' or '?' and has 15 words or more
C19_NonLastSentences ==
    (pc = "done" /\ ~is_chinese) =>
        \A k \in 1..(Len(Emitted) - 1) :
            LET closed == Emitted[k].FinalSentence
            IN  \/ NumWords(closed) >= MaxWords
                \/ IsSentenceEnd(closed) /\ NumWords(closed) >= MinSpeakerWords

\* C19: while a next Word token exists a sentence is closed only if rule (a),
\* (b) or (c) holds; hence every sentence but the last of the stream has 150
\* words or more, or ends with '.', '!' or '?' and has 15 words or more.
C19_OnlyListedReasons == [][C19_ClosedOnlyByRule]_vars /\ []C19_NonLastSentences

\* a sentence of exactly 15 words that ends with '?' has been closed before
\* a word of the other speaker, which starts 5 s after the last word
C19_Witness ==
    /\ pc = "done" /\ ~is_chinese /\ Len(Emitted) = 2
    /\ NumWords(Emitted[1].FinalSentence) = MinSpeakerWords
    /\ IsSentenceEnd(Emitted[1].FinalSentence)
    /\ Len(items) = MinSpeakerWords + 2
    /\ SpeakerLabel(items[Len(items)]) = "spk_1"
    /\ items[Len(items)].start_time - items[MinSpeakerWords].start_time = 5000

\* a step of the scan at a Word token with text that a Punctuation token with
\* text follows
C20_AtMerge ==
    LET item == items[i + 1]
        punct == items[i + 2]
        nxt == items[i + 3]
        has_next == i + 2 < Len(items)
        merged == Content(item) \o Content(punct)
        sentence == Append(current_sentence, merged)
        speaker == IF sentence_start_time = None THEN SpeakerLabel(item) ELSE current_speaker
        decision == has_next =>
                       /\ nxt.type # "punctuation"
                       /\ RuleHolds(sentence, nxt.start_time - item.start_time,
                                    SpeakerLabel(nxt) # speaker)
    IN  ( /\ pc = "scan" /\ i + 1 < Len(items)
          /\ item.type # "punctuation" /\ item.alternatives # <<>> /\ item.start_time >= 0
          /\ punct.type = "punctuation" /\ punct.alternatives # <<>> ) =>
            /\ pc' = "error" =>
                  \/ has_next /\ nxt.type # "punctuation" /\ nxt.start_time < 0
                  \/ decision /\ item.end_time = Unparsable
            /\ pc' = "scan" =>
                  /\ i' = i + 2
                  /\ should_create_segment' = decision
                  /\ IF decision
                     THEN /\ current_sentence' = <<>>
                          /\ Len(Emitted') = Len(Emitted) + 1
                          /\ ~is_chinese =>
                                Emitted'[Len(Emitted')].FinalSentence = Join(sentence)
                     ELSE /\ current_sentence' = sentence
                          /\ Len(current_sentence') = Len(current_sentence) + 1
                          /\ Emitted' = Emitted

\* C20: when a Word token with text is followed by a Punctuation token, the
\* text of the punctuation is appended to the entry of the word with no
\* space, the scan advances past the punctuation token, the sentence has one
\* entry more and not two, and the boundary test uses the merged entry.
C20_PunctuationMerge == [][C20_AtMerge]_vars

\* a sentence has just been closed at a merged '?': the word before it does
\* not end a sentence by itself, and tokens are left
C20_Witness ==
    /\ pc = "scan" /\ should_create_segment /\ i >= 2 /\ i < Len(items)
    /\ items[i].type = "punctuation" /\ Content(items[i]) = <<"?">>
    /\ items[i - 1].type # "punctuation" /\ items[i - 1].alternatives # <<>>
    /\ ~IsSentenceEnd(Content(items[i - 1]))
    /\ ~is_chinese /\ Len(Emitted) = 1
    /\ NumWords(Emitted[1].FinalSentence) = i - 1
    /\ LET closed == Emitted[1].FinalSentence
       IN  SubSeq(closed, Len(closed) - 1, Len(closed)) = Content(items[i - 1]) \o <<"?">>

\* the last step of the scan closed a sentence, the last one of Emitted, at
\* the item items[i]
JustClosed ==
    /\ pc \in {"scan", "done"} /\ should_create_segment /\ i >= 1 /\ Emitted # <<>>

\* the position of the last Word token among the first k items
LastWord(k) ==
    CHOOSE p \in 1..k : IsWord(items[p]) /\ \A q \in (p + 1)..k : ~IsWord(items[q])

\* C21: EndMs of an emitted sentence is the end time of the last Word token
\* scanned into it, never a time of a punctuation item, and when that Word
\* token has no end time EndMs is the start time of the sentence.
C21_EndOfLastWord ==
    JustClosed =>
        LET word == items[LastWord(i)]
            closed == Emitted[Len(Emitted)]
        IN  closed.EndMs = IF word.end_time = Missing THEN closed.StartMs
                           ELSE word.end_time

\* a step of the scan that does not fail: the first sentence is opened by the
\* first Word token of the stream; a sentence that is closed has for StartMs
\* the start time of the token that opened it, converted to ms as as_code
\* says; it leaves the accumulator empty and the next sentence opened by the
\* Word token that was the lookahead, and only a step that closes a sentence
\* changes the start time of an open sentence
OpenerStep(as_code) ==
    LET item == items[i + 1]
        opens == IsWord(item) /\ sentence_start_time = None
        began == IF opens THEN item.start_time ELSE sentence_start_time
        closing == Len(Emitted') = Len(Emitted) + 1
        closed == Emitted'[Len(Emitted')]
    IN  (pc = "scan" /\ i < Len(items) /\ pc' = "scan") =>
          /\ (opens /\ Emitted = <<>>) => \A q \in 1..i : ~IsWord(items[q])
          /\ IF closing
             THEN /\ closed.StartMs = IF as_code THEN ToMs(began) ELSE began
                  /\ current_sentence' = <<>>
                  /\ IF i' < Len(items)
                     THEN /\ IsWord(items[i' + 1])
                          /\ sentence_start_time' = items[i' + 1].start_time
                     ELSE sentence_start_time' = None
             ELSE /\ Emitted' = Emitted
                  /\ sentence_start_time' = began

\* C22: StartMs of every emitted sentence is the start time, in ms, of the
\* Word token that opened it: the first Word token of the stream, or the
\* Word token that was the lookahead when the sentence before it was closed;
\* the accumulator is empty right after a sentence is closed.
C22_StartOfOpener == [][OpenerStep(FALSE)]_vars

\* the same with StartMs as int(start_time * 1000) computes it
C22_StartOfOpenerTruncated == [][OpenerStep(TRUE)]_vars

\* every group closed so far holds a sentence, and every sentence of a group
\* starts in the minute of the group; so do the sentences of the open group
GroupsByStartMinute ==
    pc \in {"scan", "done"} =>
        /\ \A g \in DOMAIN segments :
              /\ segments[g].segments # <<>>
              /\ \A k \in DOMAIN segments[g].segments :
                    segments[g].segments[k].StartMs \div MinuteMs = segments[g].minute
        /\ pc = "scan" =>
              \A k \in DOMAIN minute_segments :
                  minute_segments[k].StartMs \div MinuteMs = current_minute

\* a step closes at most one sentence, which comes after the ones closed
\* before it, and the return keeps them all: each is in one group, once
EachSentenceOnce ==
    pc = "scan" =>
        \/ Emitted' = Emitted
        \/ /\ pc' = "scan" /\ Len(Emitted') = Len(Emitted) + 1
           /\ SubSeq(Emitted', 1, Len(Emitted)) = Emitted

\* C23: every MinuteSegment of the output holds at least one sentence, every
\* sentence is in exactly one MinuteSegment, and a sentence of a group of
\* minute m starts in minute m, wherever it ends.
C23_MinuteBuckets == []GroupsByStartMinute /\ [][EachSentenceOnce]_vars

\* the first group holds a sentence that ends in a later minute than it
\* starts, and the sentence after it is in another group
C23_Witness ==
    /\ pc = "done" /\ Len(segments) >= 2
    /\ segments[1].segments[1].EndMs \div MinuteMs > segments[1].minute
    /\ segments[2].minute = segments[1].segments[1].EndMs \div MinuteMs

\* an iteration of the loop moves the index forward, and the items it passes
\* over without scanning them are Punctuation tokens
IndexAdvances ==
    (pc = "scan" /\ i < Len(items) /\ pc' = "scan") =>
        /\ i' > i /\ i' <= Len(items)
        /\ \A q \in (i + 2)..i' : ~IsWord(items[q])

\* the return after the loop: the post-loop flush emits nothing
NothingLeftToFlush ==
    (pc = "scan" /\ i >= Len(items)) =>
        /\ current_sentence = <<>>
        /\ pc' = "done" => Flatten(segments') = Flatten(segments) \o minute_segments

\* C24: the scan of a finite item list terminates: the index grows on every
\* iteration and passes over no Word token; at the end of the loop the
\* accumulator is empty, the last sentence having been closed inside the
\* loop, and the flush after the loop emits nothing.
C24_ScanTerminates ==
    /\ <>(pc \in {"done", "error"})
    /\ [][IndexAdvances /\ NothingLeftToFlush]_vars

\* the loop has ended on a list whose last item closed a sentence of more than
\* one word, and the call has returned it
C24_Witness ==
    /\ pc = "done" /\ i = Len(items) /\ should_create_segment
    /\ current_sentence = <<>> /\ Emitted # <<>>
    /\ NumWords(Emitted[Len(Emitted)].FinalSentence) > 1
    /\ ~IsWord(items[Len(items)])

\* the scan is at a Punctuation token that no word has taken
AtLoosePunctuation == pc = "scan" /\ i < Len(items) /\ items[i + 1].type = "punctuation"

\* C25 (as stated): a Punctuation token that does not follow a Word token
\* with text is dropped: its text is in no sentence, it changes neither
\* currentWords nor the start time of the sentence nor the speaker, and it
\* raises no error.
C25_LoosePunctuationDropped ==
    [][AtLoosePunctuation =>
          /\ pc' = "scan" /\ i' = i + 1
          /\ current_sentence' = current_sentence
          /\ sentence_start_time' = sentence_start_time
          /\ current_speaker' = current_speaker
          /\ Emitted' = Emitted]_vars

\* a step at such a token: it adds no entry and no text, and reads no key of
\* the token but 'type' and 'end_time'; the boundary test is made at it as at
\* any item, with the start time of the last Word token
LoosePunctuationStep ==
    LET has_next == i + 1 < Len(items)
        nxt == items[i + 2]
        decision == /\ current_sentence # <<>>
                    /\ has_next =>
                          /\ nxt.type # "punctuation"
                          /\ RuleHolds(current_sentence, nxt.start_time - start_time,
                                       SpeakerLabel(nxt) # current_speaker)
        reopens == has_next /\ nxt.type # "punctuation"
    IN  AtLoosePunctuation =>
          /\ pc' = "error" =>
                \/ /\ current_sentence # <<>> /\ has_next
                   /\ nxt.type # "punctuation" /\ nxt.start_time < 0
                \/ decision /\ items[i + 1].end_time = Unparsable
          /\ pc' = "scan" =>
                /\ i' = i + 1
                /\ start_time' = start_time /\ speaker_map' = speaker_map
                /\ should_create_segment' = decision
                /\ IF decision
                   THEN /\ current_sentence' = <<>>
                        /\ Len(Emitted') = Len(Emitted) + 1
                        /\ SubSeq(Emitted', 1, Len(Emitted)) = Emitted
                        /\ ~is_chinese =>
                              Emitted'[Len(Emitted')].FinalSentence = Join(current_sentence)
                        /\ sentence_start_time' = IF reopens THEN nxt.start_time ELSE None
                        /\ current_speaker' = IF reopens THEN SpeakerLabel(nxt) ELSE NoSpeaker
                   ELSE /\ current_sentence' = current_sentence
                        /\ sentence_start_time' = sentence_start_time
                        /\ current_speaker' = current_speaker
                        /\ Emitted' = Emitted

\* C25 (amended): such a token adds no entry and no text to any sentence,
\* but the boundary test is made at it: when a sentence is open and it is the
\* last item, or a rule holds with the Word token after it, the sentence is
\* closed at it; it raises an error only then, if its end_time is unparsable.
C25_LoosePunctuationAddsNothing == [][LoosePunctuationStep]_vars

\* the speaker rule has just closed a sentence of 15 words at a comma that
\* follows the '?' merged onto the last word; the comma is not in the text
C25_Witness ==
    /\ pc = "scan" /\ should_create_segment /\ i >= 3 /\ i < Len(items)
    /\ items[i].type = "punctuation" /\ Content(items[i]) = <<",">>
    /\ items[i - 1].type = "punctuation"
    /\ ~is_chinese /\ Len(Emitted) = 1
    /\ NumWords(Emitted[1].FinalSentence) = MinSpeakerWords
    /\ LET closed == Emitted[1].FinalSentence
       IN  closed[Len(closed)] = "?" /\ \A k \in DOMAIN closed : closed[k] # ","
    /\ SpeakerLabel(items[i + 1]) = "spk_1"

\* the Word tokens start at non-decreasing times and none ends before it
\* starts
WordsOrdered(its) ==
    /\ Sorted(its)
    /\ \A p \in DOMAIN its :
          (IsWord(its[p]) /\ its[p].end_time >= 0) => its[p].start_time <= its[p].end_time

\* no Punctuation token carries an end_time before the start of a Word token
\* that precedes it
MarksOrdered(its) ==
    \A p \in DOMAIN its :
        (~IsWord(its[p]) /\ its[p].end_time >= 0) =>
            \A q \in 1..p : IsWord(its[q]) => its[q].start_time <= its[p].end_time

MaxPosts == 2
MaxClock == 1

Episodes == {"e1"}
RequestTypes == {"xyz", "en"}
Modes == {"local", "aws"}

\* d[k] = v
Put(d, k, v) == [x \in DOMAIN d \cup {k} |-> IF x = k THEN v ELSE d[x]]

\* d.pop(k, None)
Pop(d, k) == [x \in DOMAIN d \ {k} |-> d[x]]

\* line 635: f"transcribe_{request.episode_id}_{int(time.time())}"
TranscribeId(episode_id, t) == [prefix |-> "transcribe", episode_id |-> episode_id, time |-> t]

\* line 629: f"existing_{request.episode_id}"
ExistingId(episode_id) == [prefix |-> "existing", episode_id |-> episode_id, time |-> 0]

\* an entry of transcription_tasks
Task(status, transcript, error) == [status |-> status, transcript |-> transcript, error |-> error]

\* the transcript a job produces for an episode
TranscriptOf(episode_id) == "transcript of " \o episode_id

\* line 617: the statuses with which the task of the episode is returned
BlockingStatuses == {"processing", "downloading", "uploading", "transcribing", "completed"}

\* lines 613-619: the episode has a task that is returned as it is
ActiveTask(episode_id) ==
    /\ episode_id \in DOMAIN active_episodes
    /\ active_episodes[episode_id] \in DOMAIN transcription_tasks
    /\ transcription_tasks[active_episodes[episode_id]].status \in BlockingStatuses

\* lines 285, 297: the row of an episode and a language, upserted; nothing
\* is written without url and key (lines 269-271)
save_to_db(table, episode_id, status, transcript, chinese) ==
    IF supabase
    THEN Put(table, <<episode_id, IF chinese THEN 2 ELSE 1>>,
             [status |-> status, content |-> transcript])
    ELSE table

\* line 625: a row of the episode in language 1 with status 2
ExistingTranscript(episode_id) ==
    /\ <<episode_id, 1>> \in DOMAIN tbl_transcript
    /\ tbl_transcript[<<episode_id, 1>>].status = 2

\* a background task added at lines 652-664
Job(task_id, episode_id, type, mode) ==
    [task_id |-> task_id, episode_id |-> episode_id, type |-> type, mode |-> mode,
     jpc |-> "added"]

\* the table when the service starts: rows left by earlier runs
Tables ==
    { [k \in keys |-> [status |-> 2, content |-> TranscriptOf(k[1])]] :
        keys \in SUBSET (Episodes \X {1, 2}) }

ServiceInit ==
    /\ ScanIdle /\ CleanIdle /\ OtherIdle /\ CallerInit /\ StreamIdle
    /\ transcription_tasks = EmptyDict /\ active_episodes = EmptyDict
    /\ supabase \in BOOLEAN
    /\ tbl_transcript \in IF supabase THEN Tables ELSE {EmptyDict}
    /\ clock = 0 /\ background = <<>> /\ posts = 0 /\ reply = NoReply

\* POST /transcribe, lines 601-683.  raised says where an exception comes
\* from: nowhere, the Supabase client (lines 624-625) or Transcriber() (line 647)
start_transcription(episode_id, type, mode, raised) ==
    /\ posts < MaxPosts
    /\ posts' = posts + 1
    /\ IF ActiveTask(episode_id)
       THEN /\ reply' = Reply(200, episode_id, active_episodes[episode_id], NoValue, NoValue)
            /\ UNCHANGED <<transcription_tasks, active_episodes, tbl_transcript, background>>
       ELSE IF supabase /\ raised = "supabase"
       THEN \* lines 678-683: task_id is a local only if line 614 ran
            /\ reply' = Reply(500, episode_id, NoValue, NoValue, NoValue)
            /\ IF episode_id \in DOMAIN active_episodes
               THEN /\ transcription_tasks' = Pop(transcription_tasks, active_episodes[episode_id])
                    /\ active_episodes' = Pop(active_episodes, episode_id)
               ELSE UNCHANGED <<transcription_tasks, active_episodes>>
            /\ UNCHANGED <<tbl_transcript, background>>
       ELSE IF supabase /\ ExistingTranscript(episode_id)
       THEN /\ transcription_tasks' =
                   Put(transcription_tasks, ExistingId(episode_id), Task("completed", NoValue, NoValue))
            /\ active_episodes' = Put(active_episodes, episode_id, ExistingId(episode_id))
            /\ reply' = Reply(200, episode_id, ExistingId(episode_id), NoValue, NoValue)
            /\ UNCHANGED <<tbl_transcript, background>>
       ELSE IF raised = "Transcriber"
       THEN \* lines 635-637, undone at lines 680-682
            /\ transcription_tasks' = Pop(transcription_tasks, TranscribeId(episode_id, clock))
            /\ active_episodes' = Pop(active_episodes, episode_id)
            /\ reply' = Reply(500, episode_id, NoValue, NoValue, NoValue)
            /\ UNCHANGED <<tbl_transcript, background>>
       ELSE /\ transcription_tasks' =
                   Put(transcription_tasks, TranscribeId(episode_id, clock), Task("pending", NoValue, NoValue))
            /\ active_episodes' = Put(active_episodes, episode_id, TranscribeId(episode_id, clock))
            /\ tbl_transcript' = save_to_db(tbl_transcript, episode_id, 1, "", type = "xyz")
            /\ background' = Append(background, Job(TranscribeId(episode_id, clock), episode_id, type, mode))
            /\ reply' = Reply(200, episode_id, TranscribeId(episode_id, clock), NoValue, NoValue)
    /\ UNCHANGED <<supabase, clock>>

StartTranscription ==
    /\ \E episode_id \in Episodes, type \in RequestTypes, mode \in Modes,
          raised \in {"nothing", "supabase", "Transcriber"} :
          start_transcription(episode_id, type, mode, raised)
    /\ UNCHANGED <<scanVars, cleanVars, other, callerVars, streamVars>>

\* the background tasks without the one that returned
Returned(j) == [k \in 1..(Len(background) - 1) |-> IF k < j THEN background[k] ELSE background[k + 1]]

\* a failure of the job: the entry, and the episode freed
Failed(j) ==
    /\ transcription_tasks' = Put(transcription_tasks, background[j].task_id, Task("failed", NoValue, "error"))
    /\ active_episodes' = Pop(active_episodes, background[j].episode_id)
    /\ background' = Returned(j)
    /\ UNCHANGED tbl_transcript

\* the status of a job's task set, and the job moved on
Status(j, status, jpc) ==
    /\ transcription_tasks' = Put(transcription_tasks, background[j].task_id, Task(status, NoValue, NoValue))
    /\ background' = [background EXCEPT ![j].jpc = jpc]
    /\ UNCHANGED <<active_episodes, tbl_transcript>>

\* lines 707-716 and 779-787: the end of a job whose transcription returned
Completed(j, transcript) ==
    IF transcript # ""
    THEN /\ tbl_transcript' = save_to_db(tbl_transcript, background[j].episode_id, 2, transcript,
                                         background[j].type = "xyz")
         /\ transcription_tasks' =
                Put(transcription_tasks, background[j].task_id, Task("completed", transcript, NoValue))
         /\ background' = Returned(j)
         /\ UNCHANGED active_episodes
    ELSE Failed(j)

Frame == UNCHANGED <<supabase, clock, posts, reply, scanVars, cleanVars, other, callerVars, streamVars>>

\* lines 685-698 and 727: the background task starts
JobBegin ==
    /\ \E j \in DOMAIN background, raised \in BOOLEAN :
          /\ background[j].jpc = "added"
          /\ IF raised THEN Failed(j)
             ELSE IF background[j].mode = "local" THEN Status(j, "transcribing", "local")
             ELSE Status(j, "downloading", "audio")
    /\ Frame

\* lines 700-723: transcribe_local returns a transcript, returns nothing or raises
JobLocal ==
    /\ \E j \in DOMAIN background, raised \in BOOLEAN :
       \E transcript \in {"", TranscriptOf(background[j].episode_id)} :
          /\ background[j].jpc = "local"
          /\ IF raised THEN Failed(j) ELSE Completed(j, transcript)
    /\ Frame

\* lines 732-756: the audio used as it is, or downloaded and about to be uploaded
JobAudio ==
    /\ \E j \in DOMAIN background, download, raised \in BOOLEAN :
          /\ background[j].jpc = "audio"
          /\ IF ~download
             THEN /\ background' = [background EXCEPT ![j].jpc = "start"]
                  /\ UNCHANGED <<transcription_tasks, active_episodes, tbl_transcript>>
             ELSE IF raised THEN Failed(j)
             ELSE Status(j, "uploading", "upload")
    /\ Frame

\* lines 743-756: upload_to_s3 returns or raises
JobUpload ==
    /\ \E j \in DOMAIN background, raised \in BOOLEAN :
          /\ background[j].jpc = "upload"
          /\ IF raised THEN Failed(j)
             ELSE /\ background' = [background EXCEPT ![j].jpc = "start"]
                  /\ UNCHANGED <<transcription_tasks, active_episodes, tbl_transcript>>
    /\ Frame

\* lines 759-775: the AWS job started, or not
JobTranscribe ==
    /\ \E j \in DOMAIN background, raised \in BOOLEAN :
          /\ background[j].jpc = "start"
          /\ IF raised THEN Failed(j) ELSE Status(j, "transcribing", "monitor")
    /\ Frame

\* lines 778-792: monitor_asr_task returns a transcript, returns nothing or raises
JobMonitor ==
    /\ \E j \in DOMAIN background, raised \in BOOLEAN :
       \E transcript \in {"", TranscriptOf(background[j].episode_id)} :
          /\ background[j].jpc = "monitor"
          /\ IF raised THEN Failed(j) ELSE Completed(j, transcript)
    /\ Frame

\* GET /transcribe/{task_id}/result, lines 817-839: reads, and changes nothing
get_transcription_result(task_id) ==
    IF task_id \notin DOMAIN transcription_tasks
    THEN Reply(404, NoValue, task_id, NoValue, NoValue)
    ELSE IF transcription_tasks[task_id].status = "completed"
    THEN Reply(200, NoValue, task_id, "completed", transcription_tasks[task_id].transcript)
    ELSE IF transcription_tasks[task_id].status = "failed"
    THEN Reply(200, NoValue, task_id, "failed", NoValue)
    ELSE Reply(400, NoValue, task_id, NoValue, NoValue)

\* a second passes
Tick ==
    /\ clock < MaxClock
    /\ clock' = clock + 1
    /\ UNCHANGED <<transcription_tasks, active_episodes, tbl_transcript, supabase,
                   background, posts, reply>>
    /\ UNCHANGED <<scanVars, cleanVars, other, callerVars, streamVars>>

NextService ==
    \/ StartTranscription \/ JobBegin \/ JobLocal \/ JobAudio \/ JobUpload
    \/ JobTranscribe \/ JobMonitor \/ Tick

SpecService == ServiceInit /\ [][NextService]_vars

\* the tasks of an episode that have not failed
UnfailedTasks(episode_id) ==
    { t \in DOMAIN transcription_tasks :
        /\ t.episode_id = episode_id
        /\ transcription_tasks[t].status
             \in {"pending", "downloading", "uploading", "transcribing", "completed"} }

\* the background tasks of an episode that have not returned
JobsOf(episode_id) == { j \in DOMAIN background : background[j].episode_id = episode_id }

\* a POST /transcribe for an episode that has a task which has not failed
PostForTaskedEpisode ==
    /\ posts' = posts + 1
    /\ UnfailedTasks(reply'.episode_id) # {}

\* C27: at most one transcription job runs per episode: a POST /transcribe
\* for an episode that has a task which has not failed (pending, downloading,
\* uploading, transcribing or completed) returns the existing task_id, adds
\* no entry to transcription_tasks and no background task, whatever the
\* order of requests and background tasks.
C27_OneJobPerEpisode ==
    /\ [][PostForTaskedEpisode =>
            /\ reply'.code = 200
            /\ reply'.task_id \in UnfailedTasks(reply'.episode_id)
            /\ DOMAIN transcription_tasks' = DOMAIN transcription_tasks
            /\ background' = background]_vars
    /\ [](\A episode_id \in Episodes : Cardinality(JobsOf(episode_id)) <= 1)

\* the same for the statuses of line 617, which leave out "pending", and
\* the task that active_episodes names
C27_OneJobPerStartedEpisode ==
    [][(posts' = posts + 1 /\ ActiveTask(reply'.episode_id)) =>
          /\ reply' = Reply(200, reply'.episode_id, active_episodes[reply'.episode_id], NoValue, NoValue)
          /\ UNCHANGED <<transcription_tasks, active_episodes, tbl_transcript, background>>]_vars

\* C30: a task whose status is "completed" holds the transcript, and
\* GET /transcribe/{task_id}/result returns it, not null, whichever way the
\* task became completed, the tasks existing_<episode_id> included.
C30_CompletedHasTranscript ==
    \A task_id \in DOMAIN transcription_tasks :
        transcription_tasks[task_id].status = "completed" =>
            /\ transcription_tasks[task_id].transcript # NoValue
            /\ get_transcription_result(task_id).status = "completed"
            /\ get_transcription_result(task_id).transcript # NoValue

\* the same for the tasks a background task completed
C30_TranscribedHasTranscript ==
    \A task_id \in DOMAIN transcription_tasks :
        (transcription_tasks[task_id].status = "completed" /\ task_id.prefix = "transcribe") =>
            get_transcription_result(task_id) =
                Reply(200, NoValue, task_id, "completed", TranscriptOf(task_id.episode_id))

\* ---------------------------------------------------------------------
\* The stream of POST /summarize (aws/latios_summary.py, lines 322-449):
\* two reader threads put events on a queue, generate_stream takes them.

\* bounds of the stream runs
MaxChunks == 2
MaxQuota == 3

\* the texts of the deltas a model streams
Chunks == { <<"a">>, <<"b", "c", "d">> }

\* an event on the queue; the payload of "done" is None
Event(kind, payload) == [kind |-> kind, payload |-> payload]

\* lines 340-358: the events the Claude reader puts, in order: the deltas,
\* then "done", or "error" when the stream raises
ClaudeStreams ==
    { [k \in 1..(Len(deltas) + 1) |->
          IF k <= Len(deltas) THEN Event("text", deltas[k]) ELSE Event(last, <<>>)] :
        deltas \in SeqsUpTo(Chunks, MaxChunks), last \in {"done", "error"} }

\* lines 391-404: the events the Titan reader puts: "done", or "fatal"
TitanStreams ==
    { [k \in 1..(Len(deltas) + 1) |->
          IF k <= Len(deltas) THEN Event("text", deltas[k]) ELSE Event(last, <<>>)] :
        deltas \in SeqsUpTo(Chunks, MaxChunks), last \in {"done", "fatal"} }

\* what generate_stream yields
Yield(kind, chars) == [kind |-> kind, text |-> chars]

\* line 333
GATING_LIMIT_MARKER == Yield("marker", <<>>)

\* text[:n]
Slice(chars, n) == SubSeq(chars, 1, IF n < Len(chars) THEN n ELSE Len(chars))

\* the part of an over-long text that is yielded: all of it
Truncated_Whole(chars, remaining) == chars

\* line 376: text[:remaining]
Truncated(chars, remaining) == Slice(chars, remaining)

\* lines 368-386: what a text yields to a client with a quota
Gated(chars) ==
    IF client_closed THEN <<>>
    ELSE IF max_client_chars - streamed_chars > 0
    THEN IF Len(chars) <= max_client_chars - streamed_chars
         THEN <<Yield("text", chars)>>
         ELSE <<Yield("text", Truncated(chars, max_client_chars - streamed_chars)),
                GATING_LIMIT_MARKER>>
    ELSE <<GATING_LIMIT_MARKER>>

\* lines 373, 377: what the text adds to streamed_chars
Counted(chars) ==
    IF client_closed \/ max_client_chars - streamed_chars <= 0 THEN 0
    ELSE IF Len(chars) <= max_client_chars - streamed_chars THEN Len(chars)
    ELSE max_client_chars - streamed_chars

\* lines 380, 384: the text makes client_closed true
Closes(chars) ==
    /\ ~client_closed
    /\ \/ max_client_chars - streamed_chars <= 0
       \/ Len(chars) > max_client_chars - streamed_chars

\* lines 322-360: the request, and the Claude reader started
StreamInit ==
    /\ ScanIdle /\ CleanIdle /\ OtherIdle /\ CallerInit /\ ServiceIdle
    /\ queue = <<>>
    /\ claude \in { Reader(events, TRUE) : events \in ClaudeStreams }
    /\ titan = Reader(<<>>, FALSE)
    /\ gpc = "first loop"
    /\ full_text = <<>> /\ streamed_chars = 0 /\ client_closed = FALSE
    /\ max_client_chars \in 0..MaxQuota
    /\ allow_full_stream \in BOOLEAN
    /\ sent = <<>>
    /\ no_persist \in BOOLEAN /\ written = <<>>

StreamFrame == UNCHANGED <<max_client_chars, allow_full_stream, no_persist,
                           scanVars, cleanVars, other, callerVars, serviceVars>>

\* read_bedrock_stream_claude puts its next event (lines 351, 355, 357)
ClaudePut ==
    /\ claude.started /\ claude.put < Len(claude.events)
    /\ queue' = Append(queue, claude.events[claude.put + 1])
    /\ claude' = [claude EXCEPT !.put = @ + 1]
    /\ UNCHANGED <<titan, gpc, full_text, streamed_chars, client_closed, sent, written>>
    /\ StreamFrame

\* read_bedrock_stream_titan puts its next event (lines 399, 402, 404)
TitanPut ==
    /\ titan.started /\ titan.put < Len(titan.events)
    /\ queue' = Append(queue, titan.events[titan.put + 1])
    /\ titan' = [titan EXCEPT !.put = @ + 1]
    /\ UNCHANGED <<claude, gpc, full_text, streamed_chars, client_closed, sent, written>>
    /\ StreamFrame

\* lines 431-449: the text handed to write_to_db_async
Persisted(chars) == IF chars # <<>> /\ ~no_persist THEN chars ELSE <<>>

\* one iteration of the first loop (lines 363-406), from the queue.get that
\* returns to the next one
FirstLoop ==
    /\ gpc = "first loop" /\ queue # <<>>
    /\ queue' = Tail(queue)
    /\ IF Head(queue).kind = "text"
       THEN /\ full_text' = full_text \o Head(queue).payload
            /\ IF allow_full_stream
               THEN /\ sent' = Append(sent, Yield("text", Head(queue).payload))
                    /\ UNCHANGED <<streamed_chars, client_closed>>
               ELSE /\ sent' = sent \o Gated(Head(queue).payload)
                    /\ streamed_chars' = streamed_chars + Counted(Head(queue).payload)
                    /\ client_closed' = (client_closed \/ Closes(Head(queue).payload))
            /\ UNCHANGED <<titan, gpc>>
       ELSE IF Head(queue).kind = "done"
       THEN /\ gpc' = "second loop"
            /\ UNCHANGED <<titan, full_text, streamed_chars, client_closed, sent>>
       ELSE IF Head(queue).kind = "error"
       THEN /\ \E events \in TitanStreams : titan' = Reader(events, TRUE)
            /\ UNCHANGED <<gpc, full_text, streamed_chars, client_closed, sent>>
       ELSE UNCHANGED <<titan, gpc, full_text, streamed_chars, client_closed, sent>>
    /\ UNCHANGED <<claude, written>>
    /\ StreamFrame

\* one iteration of the second loop (lines 411-428), and what follows it
SecondLoop ==
    /\ gpc = "second loop"
    /\ IF queue = <<>>
       THEN /\ gpc' = "ended" /\ written' = Persisted(full_text)
            /\ UNCHANGED <<queue, full_text, sent>>
       ELSE /\ queue' = Tail(queue)
            /\ IF Head(queue).kind = "fatal"
               THEN /\ sent' = Append(sent, Yield("error", <<>>))
                    /\ gpc' = "ended"
                    /\ UNCHANGED <<full_text, written>>
               ELSE IF Head(queue).kind = "text"
               THEN /\ full_text' = full_text \o Head(queue).payload
                    /\ sent' = IF allow_full_stream
                               THEN Append(sent, Yield("text", Head(queue).payload)) ELSE sent
                    /\ UNCHANGED <<gpc, written>>
               ELSE IF Head(queue).kind = "done"
               THEN /\ gpc' = "ended" /\ written' = Persisted(full_text)
                    /\ UNCHANGED <<full_text, sent>>
               ELSE UNCHANGED <<gpc, full_text, sent, written>>
    /\ UNCHANGED <<claude, titan, streamed_chars, client_closed>>
    /\ StreamFrame

NextStream == ClaudePut \/ TitanPut \/ FirstLoop \/ SecondLoop

SpecStream == StreamInit /\ [][NextStream]_vars

\* the readers run in threads of the executor and the event loop resumes the
\* generator when the queue holds an event: no step that stays possible is
\* put off forever
SpecStreamLive == StreamInit /\ [][NextStream]_vars /\ WF_vars(NextStream)

\* both models fail: Claude's events end with "error", Titan's with "fatal"
BothFail ==
    /\ claude.events[Len(claude.events)].kind = "error"
    /\ titan.started /\ titan.events[Len(titan.events)].kind = "fatal"

ErrorSent == \E k \in DOMAIN sent : sent[k].kind = "error"

\* C28: generate_stream stops, whatever events the Claude reader puts and,
\* after Claude's "error", the Titan reader; when both fail the client gets
\* an error message and the stream ends.
C28_StreamEnds ==
    /\ <>(gpc = "ended")
    /\ [](BothFail => <>(gpc = "ended" /\ ErrorSent))

\* what holds: the stream ends unless both fail, and never when both do
C28_StreamEndsUnlessBothFail ==
    /\ <>(gpc = "ended" \/ BothFail)
    /\ [](BothFail => gpc = "first loop" /\ ~ErrorSent)

\* the texts of the events, in one
RECURSIVE Texts(_)
Texts(events) ==
    IF events = <<>> THEN <<>>
    ELSE (IF Head(events).kind = "text" THEN Head(events).payload ELSE <<>>) \o Texts(Tail(events))

\* the events generate_stream has taken from the queue: Titan puts its first
\* after Claude's last was taken
Taken == SubSeq(claude.events \o titan.events, 1, claude.put + titan.put - Len(queue))

\* the summary text yielded
RECURSIVE SentText(_)
SentText(ys) ==
    IF ys = <<>> THEN <<>>
    ELSE (IF Head(ys).kind = "text" THEN Head(ys).text ELSE <<>>) \o SentText(Tail(ys))

\* C29: when allowFullStream is false the summary text yielded is never
\* longer than maxClientChars, the text of the Titan fallback included; the
\* marker is yielded at most once and no summary text after it; full_text
\* holds every chunk taken from the queue.
C29_QuotaGating ==
    /\ full_text = Texts(Taken)
    /\ ~allow_full_stream =>
          /\ Len(SentText(sent)) <= max_client_chars
          /\ SentText(sent) = Slice(full_text, max_client_chars)
          /\ Cardinality({ k \in DOMAIN sent : sent[k] = GATING_LIMIT_MARKER }) <= 1
          /\ \A k, m \in DOMAIN sent :
                (k < m /\ sent[k] = GATING_LIMIT_MARKER) => sent[m].kind # "text"

\* a stream that ended after Claude failed and Titan took over: the client
\* got the first maxClientChars characters, the last of them from Titan, and
\* the marker, and full_text holds more
C29_Witness ==
    /\ gpc = "ended" /\ ~allow_full_stream /\ titan.started
    /\ Len(Texts(claude.events)) < max_client_chars
    /\ Len(full_text) > max_client_chars
    /\ Len(SentText(sent)) = max_client_chars
    /\ sent[Len(sent)] = GATING_LIMIT_MARKER
    /\ written = Persisted(full_text)
====
